---- MODULE Spec2Model ----
(***************************************************************************)
(* Segment processing of the transcription dashboard                       *)
(* (src/streamlit/transcription_dashboard.py): the grouping loops of       *)
(* display_speaker_transcript and display_search_result_with_speakers,     *)
(* find_matching_segments_with_context, the SRT and the CSV exporters;     *)
(* and the stage uploader (src/av.uploader/upload_av_files.py):            *)
(* upload_av_files with get_local_av_files, get_stage_files, upload_file.  *)
(*                                                                         *)
(* Specifications: Spec (grouping), SpecSearch (context search), SpecSrt   *)
(* and SpecCsv (exporters), SpecHeap (the same functions with their dicts  *)
(* as objects in memory, for aliasing), SpecUpload (one uploader run with  *)
(* Snowflake's answers to LIST and PUT chosen by the environment),         *)
(* SpecConcurrent (a run beside another run's PUTs and a directory that    *)
(* loses files), SpecMain (the uploader's process: key file, config.json,  *)
(* connection, exit status), SpecView (the result rows of the dashboard's  *)
(* search view), SpecTwice (one uploader run followed by a second one).    *)
(*                                                                         *)
(* Modelling conventions                                                   *)
(*   - a segment is a Python dict: a TLA+ record whose DOMAIN is the set   *)
(*     of keys the dict holds, read with Get (dict.get with a default);    *)
(*   - a text is a sequence of one-character strings, so that strip(),     *)
(*     lower() and the substring test are computed, not assumed;           *)
(*   - times are whole milliseconds (2 seconds = 2000); where the code     *)
(*     computes with the float, its binary digits are computed;            *)
(*   - Python's None is the string None for a speaker and the number       *)
(*     NoneNum for a time or a group id (no time or index is negative);    *)
(*   - list indices that the code stores (matching_indices, context_group, *)
(*     added_indices) are 0-based as in Python; TLA+ sequences are 1-based.*)
(***************************************************************************)
EXTENDS Integers, Sequences, FiniteSets, TLC

VARIABLES
    fn,                 \* the function the caller runs
    pc,                 \* position in that function
    speaker_segments,   \* the caller's segment list (the 'speakers' list of a row)
    search_term,        \* the search term typed by the user
    context_size,       \* the "Context messages" number input
    sorted_segments,    \* local: sorted(speaker_segments, key=start_time)
    idx,                \* number of list items the running loop has consumed
    grouping,           \* locals of a grouping loop: current_* and grouped_segments
    matching_indices,   \* local of find_matching_segments_with_context
    context,            \* its locals context_segments and added_indices
    context_segments,   \* the caller's context_segments: the value it returned
    include_speakers,   \* parameter of the SRT exporters
    srt,                \* locals of an SRT exporter: srt_content, subtitle_number
    file_info,          \* parameter of the CSV exporters: a dict, empty for None
    csv,                \* locals of a CSV exporter: csv_data and df
    objects,            \* the dicts in memory, each at its own position
    caller_list,        \* the caller's list: the positions of its dicts
    refs,               \* locals that are lists of dicts, as positions
    directory,          \* the names in the local directory
    stage,              \* the paths of the objects on the Snowflake stage
    conn,               \* the connection of upload_av_files
    executed,           \* the statements run on cursors of conn, in order
    local_files,        \* locals of upload_av_files, under their names
    stage_files,
    files_to_upload,
    already_uploaded,
    uploaded_count,
    skipped_count,
    failed_count,
    written,            \* the objects stored on the stage, and by whom
    environment,        \* what the process finds: key file, config.json
    exit_code,          \* the exit status of the process, once it has one
    previous_runs,      \* the statements of the runs made before this one
    show_speaker_view,  \* the "Show speaker segments" checkbox
    search_results,     \* the rows the search returned
    rendered            \* what the search view has put on the page, per row

\* what the CSV exporters add to the state of the dashboard
csvVars == <<file_info, csv>>

\* the memory in which the caller's dicts and their copies are objects
heapVars == <<objects, caller_list, refs>>

\* the state of the uploader (src/av.uploader/upload_av_files.py)
\* the process around upload_av_files: main and the runs before this one
processVars == <<environment, exit_code, previous_runs>>

uploaderVars == <<directory, stage, conn, executed, local_files, stage_files,
                  files_to_upload, already_uploaded,
                  uploaded_count, skipped_count, failed_count,
                  written, processVars>>

\* the segment lists of the dashboard and the locals of its functions
segmentVars == <<speaker_segments, search_term, context_size, sorted_segments,
                 grouping, matching_indices, context, context_segments,
                 include_speakers, srt>>

\* the search view of main (lines 943-1070)
viewVars == <<show_speaker_view, search_results, rendered>>

vars == <<fn, pc, idx, segmentVars, csvVars, heapVars, viewVars, uploaderVars,
          viewVars>>

----------------------------------------------------------------------------
(* Bounds of the model *)

\* longest segment list the caller passes
MaxSegs == 3

\* largest value of the "Context messages" input (the UI allows 0..50)
MaxContext == 2

----------------------------------------------------------------------------
(* Python values *)

\* None as a speaker value (JSON null) and as the initial current_speaker
None == "None"

\* None as a time or a group id
NoneNum == -1

\* the merge threshold of the grouping loops: "< 2" seconds, in milliseconds
MergeGapMs == 2000

\* dict.get(key, default)
Get(d, key, default) == IF key \in DOMAIN d THEN d[key] ELSE default

\* truth value of a number-or-None, as in "current_end and ..."
Truthy(x) == x # NoneNum /\ x # 0

Abs(x) == IF x < 0 THEN -x ELSE x

Whitespace == {" "}

\* str.strip(): leading and trailing whitespace removed
RECURSIVE LStrip(_)
LStrip(s) ==
    IF s # <<>> /\ Head(s) \in Whitespace THEN LStrip(Tail(s)) ELSE s

RECURSIVE RStrip(_)
RStrip(s) ==
    IF s # <<>> /\ s[Len(s)] \in Whitespace
    THEN RStrip(SubSeq(s, 1, Len(s) - 1))
    ELSE s

Strip(s) == RStrip(LStrip(s))

\* str.lower() on one character of the model's alphabet
LowerChar(c) ==
    CASE c = "H" -> "h"
      [] c = "I" -> "i"
      [] c = "X" -> "x"
      [] OTHER -> c

Lower(s) == [i \in 1..Len(s) |-> LowerChar(s[i])]

\* the key of every sort of the module: x.get('start_time', 0)
StartKey(segment) == Get(segment, "start_time", 0)

\* an insertion that puts x before the elements of equal key
InsertBeforeEqualKeys(s, x) ==
    LET n == Cardinality({i \in 1..Len(s) : StartKey(s[i]) < StartKey(x)})
    IN  SubSeq(s, 1, n) \o <<x>> \o SubSeq(s, n + 1, Len(s))

\* one insertion of Python's stable sort: x goes after every element whose
\* key is <= its own
InsertByStartTime(s, x) ==
    LET n == Cardinality({i \in 1..Len(s) : StartKey(s[i]) <= StartKey(x)})
    IN  SubSeq(s, 1, n) \o <<x>> \o SubSeq(s, n + 1, Len(s))

\* sorted(segments, key=lambda x: x.get('start_time', 0))
RECURSIVE SortedByStartTime(_)
SortedByStartTime(segments) ==
    IF segments = <<>>
    THEN <<>>
    ELSE InsertByStartTime(
             SortedByStartTime(SubSeq(segments, 1, Len(segments) - 1)),
             segments[Len(segments)])

----------------------------------------------------------------------------
(* display_speaker_transcript: the grouping loop *)

\* the locals before the loop (lines 413-417)
GroupingInit ==
    [grouped_segments |-> <<>>,
     current_speaker |-> None,
     current_text |-> <<>>,
     current_start |-> NoneNum,
     current_end |-> NoneNum,
     current_is_match |-> FALSE,
     current_context_group |-> NoneNum]

\* the dict appended to grouped_segments (lines 432-437, 446-451)
TranscriptGroup(g) ==
    [speaker |-> g.current_speaker,
     text |-> g.current_text,
     start_time |-> g.current_start,
     end_time |-> g.current_end]

\* the test of line 425
TranscriptMerges(g, segment) ==
    /\ Get(segment, "speaker", "Unknown") = g.current_speaker
    /\ Truthy(g.current_end)
    /\ Abs(Get(segment, "start_time", 0) - g.current_end) < MergeGapMs

\* the loop body with the merge branch leaving current_end as it was
TranscriptStepKeepsEnd(g, segment) ==
    LET speaker == Get(segment, "speaker", "Unknown")
        text == Strip(Get(segment, "text", <<>>))
        start_time == Get(segment, "start_time", 0)
        end_time == Get(segment, "end_time", 0)
    IN  IF TranscriptMerges(g, segment)
        THEN [g EXCEPT !.current_text = @ \o <<" ">> \o text]
        ELSE [g EXCEPT
                 !.grouped_segments =
                     IF g.current_speaker # None
                     THEN Append(@, TranscriptGroup(g))
                     ELSE @,
                 !.current_speaker = speaker,
                 !.current_text = text,
                 !.current_start = start_time,
                 !.current_end = end_time]

\* one iteration of the loop of lines 419-442
TranscriptStep(g, segment) ==
    LET speaker == Get(segment, "speaker", "Unknown")
        text == Strip(Get(segment, "text", <<>>))
        start_time == Get(segment, "start_time", 0)
        end_time == Get(segment, "end_time", 0)
    IN  IF TranscriptMerges(g, segment)
        THEN [g EXCEPT !.current_text = @ \o <<" ">> \o text,
                       !.current_end = end_time]
        ELSE [g EXCEPT
                 !.grouped_segments =
                     IF g.current_speaker # None
                     THEN Append(@, TranscriptGroup(g))
                     ELSE @,
                 !.current_speaker = speaker,
                 !.current_text = text,
                 !.current_start = start_time,
                 !.current_end = end_time]

\* "Don't forget the last segment" (lines 445-451)
TranscriptFlush(g) ==
    IF g.current_speaker # None
    THEN [g EXCEPT !.grouped_segments = Append(@, TranscriptGroup(g))]
    ELSE g

\* the loop over a whole list
RECURSIVE TranscriptLoop(_, _)
TranscriptLoop(g, segments) ==
    IF segments = <<>>
    THEN g
    ELSE TranscriptLoop(TranscriptStep(g, Head(segments)), Tail(segments))

\* grouped_segments of display_speaker_transcript(segments), lines 396-451
GroupedTranscript(segments) ==
    IF segments = <<>>
    THEN <<>>
    ELSE TranscriptFlush(
             TranscriptLoop(GroupingInit, SortedByStartTime(segments))
         ).grouped_segments

----------------------------------------------------------------------------
(* find_matching_segments_with_context *)

\* Python's "term in text" on strings
Contains(text, term) ==
    \E off \in 0..(Len(text) - Len(term)) :
        SubSeq(text, off + 1, off + Len(term)) = term

\* the test with the term compared as typed
SegmentMatchesTermAsTyped(segment, term) ==
    Contains(Lower(Get(segment, "text", <<>>)), term)

\* the test of lines 237-238
SegmentMatches(segment, term) ==
    Contains(Lower(Get(segment, "text", <<>>)), Lower(term))

\* matching_indices after the loop of lines 235-239 (0-based, ascending)
MatchingIndices(sorted, term) ==
    SelectSeq([k \in 1..Len(sorted) |-> k - 1],
              LAMBDA i : SegmentMatches(sorted[i + 1], term))

\* segment.copy() with the two tags set (lines 256-258)
TaggedCopy(segment, is_match, context_group) ==
    [k \in DOMAIN segment \cup {"is_match", "context_group"} |->
        IF k = "is_match" THEN is_match
        ELSE IF k = "context_group" THEN context_group
        ELSE segment[k]]

\* the locals before the loop over the matches (lines 245-246)
ContextInit == [context_segments |-> <<>>, added_indices |-> {}]

\* the loop body without the "not in added_indices" test
ContextAddAlways(c, sorted, match_idx, i) ==
    [context_segments |->
         Append(c.context_segments,
                TaggedCopy(sorted[i + 1], i = match_idx, match_idx)),
     added_indices |-> c.added_indices \cup {i}]

\* the loop body re-tagging a segment that an earlier match added
ContextAddRetags(c, sorted, match_idx, i) ==
    IF i \notin c.added_indices
    THEN [context_segments |->
              Append(c.context_segments,
                     TaggedCopy(sorted[i + 1], i = match_idx, match_idx)),
          added_indices |-> c.added_indices \cup {i}]
    ELSE [c EXCEPT
             !.context_segments =
                 [k \in 1..Len(@) |->
                     IF Cardinality({j \in c.added_indices : j < i}) = k - 1
                     THEN TaggedCopy(sorted[i + 1], i = match_idx, match_idx)
                     ELSE @[k]]]

\* the body of the inner loop for one i (lines 255-260)
ContextAdd(c, sorted, match_idx, i) ==
    IF i \notin c.added_indices
    THEN [context_segments |->
              Append(c.context_segments,
                     TaggedCopy(sorted[i + 1], i = match_idx, match_idx)),
          added_indices |-> c.added_indices \cup {i}]
    ELSE c

\* for i in range(i, end_idx) (line 254)
RECURSIVE ContextRange(_, _, _, _, _)
ContextRange(c, sorted, match_idx, i, end_idx) ==
    IF i >= end_idx
    THEN c
    ELSE ContextRange(ContextAdd(c, sorted, match_idx, i),
                      sorted, match_idx, i + 1, end_idx)

\* start_idx without the segments before the match
WindowStartAtMatch(match_idx, size) == match_idx

\* start_idx of line 250
WindowStart(match_idx, size) ==
    IF match_idx - size > 0 THEN match_idx - size ELSE 0

\* end_idx one too far
WindowEndInclusive(len, match_idx, size) ==
    IF match_idx + size + 2 < len THEN match_idx + size + 2 ELSE len

\* end_idx of line 251 (exclusive)
WindowEnd(len, match_idx, size) ==
    IF match_idx + size + 1 < len THEN match_idx + size + 1 ELSE len

\* one iteration of the loop over the matches (lines 248-260)
ContextStep(c, sorted, match_idx, size) ==
    ContextRange(c, sorted, match_idx,
                 WindowStart(match_idx, size),
                 WindowEnd(Len(sorted), match_idx, size))

\* the loop over matching_indices
RECURSIVE ContextLoop(_, _, _, _)
ContextLoop(c, sorted, matches, size) ==
    IF matches = <<>>
    THEN c
    ELSE ContextLoop(ContextStep(c, sorted, Head(matches), size),
                     sorted, Tail(matches), size)

\* the value find_matching_segments_with_context returns (lines 228-263)
FindMatchingSegmentsWithContext(segments, term, size) ==
    IF segments = <<>> \/ term = <<>>
    THEN <<>>
    ELSE LET sorted == SortedByStartTime(segments)
             matches == MatchingIndices(sorted, term)
         IN  IF matches = <<>>
             THEN <<>>
             ELSE SortedByStartTime(
                      ContextLoop(ContextInit, sorted, matches, size
                      ).context_segments)

----------------------------------------------------------------------------
(* display_search_result_with_speakers: the grouping loop *)

\* the dict appended to grouped_segments (lines 308-315, 326-333)
SearchGroup(g) ==
    [speaker |-> g.current_speaker,
     text |-> g.current_text,
     start_time |-> g.current_start,
     end_time |-> g.current_end,
     is_match |-> g.current_is_match,
     context_group |-> g.current_context_group]

\* the test of lines 298-301
SearchMerges(g, segment) ==
    /\ Get(segment, "speaker", "Unknown") = g.current_speaker
    /\ Truthy(g.current_end)
    /\ Abs(Get(segment, "start_time", 0) - g.current_end) < MergeGapMs
    /\ Get(segment, "is_match", FALSE) = g.current_is_match
    /\ Get(segment, "context_group", NoneNum) = g.current_context_group

\* one iteration of the loop of lines 289-322
SearchStep(g, segment) ==
    LET speaker == Get(segment, "speaker", "Unknown")
        text == Strip(Get(segment, "text", <<>>))
        start_time == Get(segment, "start_time", 0)
        end_time == Get(segment, "end_time", 0)
        is_match == Get(segment, "is_match", FALSE)
        context_group == Get(segment, "context_group", NoneNum)
    IN  IF SearchMerges(g, segment)
        THEN [g EXCEPT !.current_text = @ \o <<" ">> \o text,
                       !.current_end = end_time]
        ELSE [g EXCEPT
                 !.grouped_segments =
                     IF g.current_speaker # None
                     THEN Append(@, SearchGroup(g))
                     ELSE @,
                 !.current_speaker = speaker,
                 !.current_text = text,
                 !.current_start = start_time,
                 !.current_end = end_time,
                 !.current_is_match = is_match,
                 !.current_context_group = context_group]

\* "Don't forget the last segment" (lines 325-333)
SearchFlush(g) ==
    IF g.current_speaker # None
    THEN [g EXCEPT !.grouped_segments = Append(@, SearchGroup(g))]
    ELSE g

----------------------------------------------------------------------------
(* The SRT exporters *)

\* the locals before the loop (lines 715, 758-759)
SrtInit == [srt_content |-> <<>>, subtitle_number |-> 1]

\* A time of t milliseconds is the JSON number t/1000, which Python reads as
\* the nearest float: an IEEE-754 double of FloatBits significant bits.  The
\* arithmetic of lines 729, 733, 774 and 778 is computed on binary digits
\* (most significant first), since the numbers exceed the integers of TLC.
FloatBits == 53

\* the binary digits of a natural number
RECURSIVE BitsOf(_)
BitsOf(n) == IF n = 0 THEN <<>> ELSE Append(BitsOf(n \div 2), n % 2)

\* the natural number of a list of binary digits
RECURSIVE BitsValue(_)
BitsValue(b) ==
    IF b = <<>> THEN 0
    ELSE 2 * BitsValue(SubSeq(b, 1, Len(b) - 1)) + b[Len(b)]

\* the sequence a function on 1..n is: the concatenation makes TLC compute
\* the digits once instead of keeping the constructor unevaluated
Digits(f) == f \o <<>>

\* a list of binary digits plus one
BitsInc(b) ==
    LET zeros == {i \in 1..Len(b) : b[i] = 0}
        last == CHOOSE i \in zeros : \A j \in zeros : j <= i
    IN  IF zeros = {} THEN <<1>> \o [i \in 1..Len(b) |-> 0]
        ELSE Digits([i \in 1..Len(b) |->
                 IF i < last THEN b[i] ELSE IF i = last THEN 1 ELSE 0])

\* a list of binary digits times a small number c; carry[k] is what the k
\* lowest digits carry into the next
BitsTimes(b, c) ==
    LET n == Len(b)
        carry[k \in 0..n] ==
            IF k = 0 THEN 0 ELSE (b[n + 1 - k] * c + carry[k - 1]) \div 2
    IN  BitsOf(carry[n])
        \o Digits([j \in 1..n |-> (b[j] * c + carry[n - j]) % 2])

BitsNoLeadingZeros(b) ==
    LET ones == {i \in 1..Len(b) : b[i] = 1}
        first == CHOOSE i \in ones : \A j \in ones : i <= j
    IN  IF ones = {} THEN <<>> ELSE SubSeq(b, first, Len(b))

\* round-half-to-even of the digits b followed by the digits rest
RoundHalfEven(b, half, sticky) ==
    IF half /\ (sticky \/ (b # <<>> /\ b[Len(b)] = 1)) THEN BitsInc(b) ELSE b

\* the first n binary digits of the fraction r/1000 and what is left of r
FractionDigits(r, n) ==
    LET left[k \in 0..n] == IF k = 0 THEN r ELSE (2 * left[k - 1]) % 1000
    IN  [bits |-> Digits([k \in 1..n |->
                      IF 2 * left[k - 1] >= 1000 THEN 1 ELSE 0]),
         rem |-> left[n]]

\* the number of binary digits after the point that the float of
\* i + m/1000 keeps: FloatBits less the digits of i, or FloatBits more the
\* zeros that lead the fraction when i = 0
RECURSIVE LeadingFractionZeros(_)
LeadingFractionZeros(m) ==
    IF m = 0 \/ 2 * m >= 1000 THEN 0 ELSE 1 + LeadingFractionZeros(2 * m)

FloatFractionDigits(i, m) ==
    IF i > 0 THEN FloatBits - Len(BitsOf(i))
    ELSE FloatBits + LeadingFractionZeros(m)

\* start_time - int(start_time) of the float nearest to i + m/1000, as the
\* digits after the point (the subtraction is exact)
FloatFraction(i, m) ==
    LET q == FloatFractionDigits(i, m)
        d == FractionDigits(m, q)
    IN  RoundHalfEven(d.bits, 2 * d.rem >= 1000, 2 * d.rem > 1000)

\* int((start_time - int(start_time)) * 1000) (lines 729, 733, 774, 778):
\* the product is rounded to FloatBits significant digits and then truncated
FloatMilliseconds(t) ==
    LET i == t \div 1000
        m == t % 1000
        q == FloatFractionDigits(i, m)
        product == BitsNoLeadingZeros(BitsTimes(FloatFraction(i, m), 1000))
        dropped == IF Len(product) > FloatBits
                   THEN Len(product) - FloatBits ELSE 0
        kept == SubSeq(product, 1, Len(product) - dropped)
        rest == SubSeq(product, Len(product) - dropped + 1, Len(product))
        rounded == RoundHalfEven(kept,
                       dropped > 0 /\ rest[1] = 1,
                       \E j \in 2..dropped : rest[j] = 1)
        after == q - dropped
    IN  IF m = 0 THEN 0
        ELSE IF after >= Len(rounded) THEN 0
        ELSE BitsValue(SubSeq(rounded, 1, Len(rounded) - after))

\* the four numbers of a timestamp "HH:MM:SS,mmm" (lines 727-729, 772-774)
SrtTimestamp(t) ==
    [hours |-> (t \div 1000) \div 3600,
     minutes |-> ((t \div 1000) % 3600) \div 60,
     seconds |-> ((t \div 1000) % 3600) % 60,
     milliseconds |-> FloatMilliseconds(t)]

\* the decimal digits of a natural number, as characters
Digit(n) == CASE n = 0 -> "0" [] n = 1 -> "1" [] n = 2 -> "2" [] n = 3 -> "3"
              [] n = 4 -> "4" [] n = 5 -> "5" [] n = 6 -> "6" [] n = 7 -> "7"
              [] n = 8 -> "8" [] n = 9 -> "9"

RECURSIVE Decimal(_)
Decimal(n) ==
    IF n < 10 THEN <<Digit(n)>> ELSE Append(Decimal(n \div 10), Digit(n % 10))

\* f"{n:0{width}d}": at least width digits, zeros in front
RECURSIVE ZeroPadded(_, _)
ZeroPadded(digits, width) ==
    IF Len(digits) >= width THEN digits
    ELSE ZeroPadded(<<"0">> \o digits, width)

\* f"{hours:02d}:{minutes:02d}:{seconds:02d},{milliseconds:03d}"
\* (lines 735-736, 780-781)
FormatTimestamp(ts) ==
    ZeroPadded(Decimal(ts.hours), 2) \o <<":">>
    \o ZeroPadded(Decimal(ts.minutes), 2) \o <<":">>
    \o ZeroPadded(Decimal(ts.seconds), 2) \o <<",">>
    \o ZeroPadded(Decimal(ts.milliseconds), 3)

\* one entry f"{number}\n{start} --> {end}\n{subtitle_text}\n"; the text line
\* is a sequence of characters in which a speaker label is one element
SrtEntry(number, start_time, end_time, subtitle_text) ==
    [index |-> number,
     start_timestamp |-> FormatTimestamp(SrtTimestamp(start_time)),
     end_timestamp |-> FormatTimestamp(SrtTimestamp(end_time)),
     subtitle_text |-> subtitle_text]

\* one iteration of the loop of convert_speaker_segments_to_srt
\* (lines 717-746); i is the 1-based position enumerate() gives
SpeakerSrtStep(r, i, segment, include) ==
    LET speaker == Get(segment, "speaker", "Unknown")
        text == Strip(Get(segment, "text", <<>>))
        start_time == Get(segment, "start_time", 0)
        end_time == Get(segment, "end_time", 0)
        subtitle_text ==
            IF include /\ speaker # "Unknown"
            THEN <<speaker, ":", " ">> \o text
            ELSE text
    IN  IF text = <<>>
        THEN r
        ELSE [r EXCEPT !.srt_content =
                 Append(@, SrtEntry(i, start_time, end_time, subtitle_text))]

\* one iteration of the loop of convert_search_results_to_srt (lines 761-798)
SearchSrtStep(r, segment, include) ==
    LET speaker == Get(segment, "speaker", "Unknown")
        text == Strip(Get(segment, "text", <<>>))
        start_time == Get(segment, "start_time", 0)
        end_time == Get(segment, "end_time", 0)
        is_match == Get(segment, "is_match", FALSE)
        subtitle_text ==
            IF include /\ speaker # "Unknown"
            THEN IF is_match
                 THEN <<speaker, " ", "[MATCH]", ":", " ">> \o text
                 ELSE <<speaker, ":", " ">> \o text
            ELSE IF is_match
                 THEN <<"[MATCH]", ":", " ">> \o text
                 ELSE text
    IN  IF text = <<>>
        THEN r
        ELSE [srt_content |->
                  Append(r.srt_content,
                         SrtEntry(r.subtitle_number, start_time, end_time,
                                  subtitle_text)),
              subtitle_number |-> r.subtitle_number + 1]

\* convert_speaker_segments_to_srt as a whole (lines 709-748): the entries
\* it joins, none for the None it returns on an empty list
RECURSIVE SpeakerSrtLoop(_, _, _, _)
SpeakerSrtLoop(r, i, segments, include) ==
    IF i > Len(segments) THEN r
    ELSE SpeakerSrtLoop(SpeakerSrtStep(r, i, segments[i], include),
                        i + 1, segments, include)

ConvertSpeakerSegmentsToSrt(segments, include) ==
    SpeakerSrtLoop(SrtInit, 1, SortedByStartTime(segments), include).srt_content

\* convert_search_results_to_srt as a whole (lines 752-800)
RECURSIVE SearchSrtLoop(_, _, _)
SearchSrtLoop(r, segments, include) ==
    IF segments = <<>> THEN r
    ELSE SearchSrtLoop(SearchSrtStep(r, Head(segments), include),
                       Tail(segments), include)

ConvertSearchResultsToSrt(segments, include) ==
    SearchSrtLoop(SrtInit, SortedByStartTime(segments), include).srt_content

----------------------------------------------------------------------------
(* The CSV exporters *)

\* file_info = None; "if file_info" (lines 512, 626) takes an empty dict
\* the same way
NoFileInfo == <<>>

\* the locals before the loop (lines 482, 592) and the frame returned
CsvInit == [csv_data |-> <<>>, df |-> <<>>]

\* f"{mins:02d}:{secs:02d}" of divmod(int(t), 60) (lines 492-495, 604-607)
MinutesSeconds(t) ==
    ZeroPadded(Decimal((t \div 1000) \div 60), 2) \o <<":">>
    \o ZeroPadded(Decimal((t \div 1000) % 60), 2)

\* round(duration, 2), in milliseconds; a duration half way between two
\* hundredths has no value here
RoundHundredths(d) ==
    CASE d % 10 < 5 -> d - (d % 10)
      [] d % 10 > 5 -> d - (d % 10) + 10

\* the row of the speaker variant numbered from 0, as enumerate() without
\* its second argument would
SpeakerCsvRowFromZero(i, segment) ==
    LET start_time == Get(segment, "start_time", 0)
        end_time == Get(segment, "end_time", 0)
    IN  [Segment |-> i - 1,
         Speaker |-> Get(segment, "speaker", "Unknown"),
         Start_Time |-> MinutesSeconds(start_time),
         End_Time |-> MinutesSeconds(end_time),
         Start_Seconds |-> start_time,
         End_Seconds |-> end_time,
         Duration_Seconds |->
             RoundHundredths(Get(segment, "duration", end_time - start_time)),
         Text |-> Strip(Get(segment, "text", <<>>))]

\* the dict appended to csv_data by convert_speaker_segments_to_csv
\* (lines 485-506); i is the 1-based position enumerate() gives
SpeakerCsvRow(i, segment) ==
    LET start_time == Get(segment, "start_time", 0)
        end_time == Get(segment, "end_time", 0)
    IN  [Segment |-> i,
         Speaker |-> Get(segment, "speaker", "Unknown"),
         Start_Time |-> MinutesSeconds(start_time),
         End_Time |-> MinutesSeconds(end_time),
         Start_Seconds |-> start_time,
         End_Seconds |-> end_time,
         Duration_Seconds |->
             RoundHundredths(Get(segment, "duration", end_time - start_time)),
         Text |-> Strip(Get(segment, "text", <<>>))]

\* the row of the search variant with the group number left 0-based
SearchCsvRowGroupFromZero(i, segment) ==
    LET start_time == Get(segment, "start_time", 0)
        end_time == Get(segment, "end_time", 0)
    IN  [Segment |-> i,
         Speaker |-> Get(segment, "speaker", "Unknown"),
         Start_Time |-> MinutesSeconds(start_time),
         End_Time |-> MinutesSeconds(end_time),
         Start_Seconds |-> start_time,
         End_Seconds |-> end_time,
         Duration_Seconds |->
             RoundHundredths(Get(segment, "duration", end_time - start_time)),
         Is_Match |-> IF Get(segment, "is_match", FALSE)
                      THEN "YES" ELSE "CONTEXT",
         Match_Group |-> Get(segment, "context_group", 0),
         Text |-> Strip(Get(segment, "text", <<>>))]

\* the dict appended by convert_search_results_to_csv (lines 595-620)
SearchCsvRow(i, segment) ==
    LET start_time == Get(segment, "start_time", 0)
        end_time == Get(segment, "end_time", 0)
    IN  [Segment |-> i,
         Speaker |-> Get(segment, "speaker", "Unknown"),
         Start_Time |-> MinutesSeconds(start_time),
         End_Time |-> MinutesSeconds(end_time),
         Start_Seconds |-> start_time,
         End_Seconds |-> end_time,
         Duration_Seconds |->
             RoundHundredths(Get(segment, "duration", end_time - start_time)),
         Is_Match |-> IF Get(segment, "is_match", FALSE)
                      THEN "YES" ELSE "CONTEXT",
         Match_Group |-> Get(segment, "context_group", 0) + 1,
         Text |-> Strip(Get(segment, "text", <<>>))]

\* a metadata row of convert_speaker_segments_to_csv (lines 514-553)
MetadataRow(label, value) ==
    [Segment |-> "METADATA", Speaker |-> label, Start_Time |-> value,
     End_Time |-> "", Start_Seconds |-> "", End_Seconds |-> "",
     Duration_Seconds |-> "", Text |-> ""]

\* the row of "---" (lines 554-563)
SeparatorRow ==
    [Segment |-> "---", Speaker |-> "---", Start_Time |-> "---",
     End_Time |-> "---", Start_Seconds |-> "---", End_Seconds |-> "---",
     Duration_Seconds |-> "---", Text |-> "---"]

\* f"{duration:.1f}s" (lines 537, 667), for a duration in milliseconds
\* that is a whole number of tenths of a second
OneDecimal(d) ==
    CASE d % 100 = 0 ->
        Decimal(d \div 1000) \o <<".", Digit((d % 1000) \div 100), "s">>

\* metadata_rows of convert_speaker_segments_to_csv (lines 513-563); now
\* is the text of datetime.now()
SpeakerMetadataRows(info, now) ==
    <<MetadataRow("File", Get(info, "filename", "Unknown")),
      MetadataRow("Language", Get(info, "language", "Unknown")),
      MetadataRow("Duration", OneDecimal(Get(info, "duration", 0))),
      MetadataRow("Export_Date", now),
      SeparatorRow>>

\* a row of the speaker variant with the two columns the search variant
\* adds, both holding the same text (lines 636-637, 696-697)
WithSearchColumns(row, cell) ==
    [column \in DOMAIN row \cup {"Is_Match", "Match_Group"} |->
        IF column \in DOMAIN row THEN row[column] ELSE cell]

\* metadata_rows of convert_search_results_to_csv (lines 627-699)
SearchMetadataRows(info, term, now) ==
    <<WithSearchColumns(MetadataRow("Search_Term", term), "")>>
    \o [k \in 1..4 |->
           WithSearchColumns(SpeakerMetadataRows(info, now)[k], "")]
    \o <<WithSearchColumns(SeparatorRow, "---")>>

\* pd.concat([metadata_df, df]) when file_info is given (lines 512-569,
\* 626-705)
FrameWithMetadata(metadata_rows, csv_data, info) ==
    IF DOMAIN info # {} THEN metadata_rows \o csv_data ELSE csv_data

----------------------------------------------------------------------------
(* Dicts and lists as objects: what a function can change for its caller *)

\* dict.copy(): a new dict, at a new position, with the items of the dict
\* at ref
DictCopy(objs, ref) == Append(objs, objs[ref])

\* d[key] = value on the dict at ref
SetItem(objs, ref, key, value) ==
    [objs EXCEPT ![ref] =
        [k \in DOMAIN @ \cup {key} |-> IF k = key THEN value ELSE @[k]]]

\* the dicts a list holds
Deref(objs, list) == [k \in 1..Len(list) |-> objs[list[k]]]

\* sorted(list, key=lambda x: x.get('start_time', 0)): a new list of the
\* same dicts
InsertRefByStartTime(objs, s, x) ==
    LET n == Cardinality({i \in 1..Len(s) :
                 StartKey(objs[s[i]]) <= StartKey(objs[x])})
    IN  SubSeq(s, 1, n) \o <<x>> \o SubSeq(s, n + 1, Len(s))

RECURSIVE SortedRefsByStartTime(_, _)
SortedRefsByStartTime(objs, list) ==
    IF list = <<>>
    THEN <<>>
    ELSE InsertRefByStartTime(
             objs,
             SortedRefsByStartTime(objs, SubSeq(list, 1, Len(list) - 1)),
             list[Len(list)])

\* the list-valued locals of find_matching_segments_with_context and of
\* display_speaker_transcript, and the list returned
RefsInit ==
    [sorted_segments |-> <<>>, context_segments |-> <<>>,
     added_indices |-> {}, returned |-> <<>>]

\* the body of the inner loop writing to the dict of the sorted list
\* itself, with no copy
HeapContextAddInPlace(h, match_idx, i) ==
    IF i \in h.refs.added_indices
    THEN h
    ELSE LET segment == h.refs.sorted_segments[i + 1]
             tagged == SetItem(SetItem(h.objects, segment,
                                       "is_match", i = match_idx),
                               segment, "context_group", match_idx)
         IN  [objects |-> tagged,
              refs |-> [h.refs EXCEPT
                           !.context_segments = Append(@, segment),
                           !.added_indices = @ \cup {i}]]

\* the body of the inner loop (lines 255-260) on h = the dicts in memory
\* and the locals: the copy is a new dict and the two keys are set on it
HeapContextAdd(h, match_idx, i) ==
    IF i \in h.refs.added_indices
    THEN h
    ELSE LET copied == DictCopy(h.objects, h.refs.sorted_segments[i + 1])
             segment == Len(copied)
             tagged == SetItem(SetItem(copied, segment,
                                       "is_match", i = match_idx),
                               segment, "context_group", match_idx)
         IN  [objects |-> tagged,
              refs |-> [h.refs EXCEPT
                           !.context_segments = Append(@, segment),
                           !.added_indices = @ \cup {i}]]

\* "for i in range(start_idx, end_idx)" (lines 254-260)
RECURSIVE HeapContextRange(_, _, _, _)
HeapContextRange(h, match_idx, i, end_idx) ==
    IF i >= end_idx THEN h
    ELSE HeapContextRange(HeapContextAdd(h, match_idx, i),
                          match_idx, i + 1, end_idx)

\* one iteration of "for match_idx in matching_indices" (lines 248-260)
HeapContextStep(h, match_idx, size) ==
    HeapContextRange(h, match_idx, WindowStart(match_idx, size),
                     WindowEnd(Len(h.refs.sorted_segments), match_idx, size))

\* no function is running on dicts in memory
HeapIdle == objects = <<>> /\ caller_list = <<>> /\ refs = RefsInit

\* the search view is not shown
ViewIdle ==
    /\ show_speaker_view = TRUE
    /\ search_results = <<>>
    /\ rendered = <<>>

\* the CSV exporters have not run
CsvIdle == file_info = NoFileInfo /\ csv = CsvInit

----------------------------------------------------------------------------
(* The uploader: src/av.uploader/upload_av_files.py *)

\* Supported audio/video file extensions (lines 22-27)
AV_EXTENSIONS ==
    {".mp3", ".wav", ".m4a", ".flac", ".aac", ".ogg", ".wma",
     ".mp4", ".avi", ".mov", ".mkv", ".webm", ".flv", ".wmv", ".m4v"}

\* the file names of the model, in the order in which list.sort() puts
\* their paths (line 136)
NameOrder == <<"a.mp3", "b.mp4", "c.wav", "notes.txt">>

\* what glob(f'*{ext}') looks at: the end of a name (line 133)
Suffix(name) ==
    CASE name = "a.mp3" -> ".mp3"
      [] name = "b.mp4" -> ".mp4"
      [] name = "c.wav" -> ".wav"
      [] name = "notes.txt" -> ".txt"

\* a directory that does not exist, and one holding the names S
MissingDirectory == [exists |-> FALSE, names |-> {}]
Directory(S) == [exists |-> TRUE, names |-> S]

\* get_local_av_files (lines 122-151): the sorted media files of av_dir,
\* [] when the directory does not exist
GetLocalAvFiles(dir) ==
    IF ~dir.exists THEN <<>>
    ELSE SelectSeq(NameOrder,
                   LAMBDA name : name \in dir.names
                                 /\ Suffix(name) \in AV_EXTENSIONS)

\* the first part of a path on the stage instead of the last
BaseNameFirstPart(file_path) == file_path[1]

\* a path on the stage is the list of its parts; file_path.split('/')[-1]
\* (line 110)
BaseName(file_path) == file_path[Len(file_path)]

\* the set get_stage_files builds from the rows of LIST (lines 105-111)
StageFiles(rows) == {BaseName(file_path) : file_path \in rows}

\* a plan that uploads every local file, whatever the listing holds
FilesToUploadAll(files, staged) == files

\* files_to_upload and already_uploaded (lines 215-222)
FilesToUpload(files, staged) ==
    SelectSeq(files, LAMBDA local_file : local_file \notin staged)

AlreadyUploaded(files, staged) ==
    SelectSeq(files, LAMBDA local_file : local_file \in staged)

\* str.upper() on one character of the statuses of the model
UpperChar(c) ==
    CASE c = "u" -> "U" [] c = "p" -> "P" [] c = "l" -> "L"
      [] c = "o" -> "O" [] c = "a" -> "A" [] c = "d" -> "D"
      [] c = "e" -> "E" [] OTHER -> c

Upper(s) == [i \in 1..Len(s) |-> UpperChar(s[i])]

UPLOADED == <<"U", "P", "L", "O", "A", "D", "E", "D">>
SKIPPED == <<"S", "K", "I", "P", "P", "E", "D">>

\* what cursor.execute(put_sql) and cursor.fetchone() give upload_file: an
\* exception, no row, or a row whose seventh column is a status
PutRaised == [raised |-> TRUE, row |-> FALSE, status |-> <<>>]
PutNoRow == [raised |-> FALSE, row |-> FALSE, status |-> <<>>]
PutRow(status) == [raised |-> FALSE, row |-> TRUE, status |-> status]

\* upload_file taking every row that came back for a success
UploadFileAnyRow(response) ==
    IF response.raised THEN "False"
    ELSE IF response.row THEN "True"
    ELSE "False"

\* upload_file without its except clause: the exception of the statement
\* leaves the function
UploadFileNoExcept(response) ==
    IF response.raised THEN "raised"
    ELSE IF response.row /\ Contains(Upper(response.status), UPLOADED)
    THEN "True"
    ELSE IF response.row /\ Contains(Upper(response.status), SKIPPED)
    THEN "SKIPPED"
    ELSE "False"

\* the value upload_file returns (lines 165-188): True, 'SKIPPED' or False;
\* "raised" would be an exception leaving it, which the except clause of
\* lines 186-188 does not let happen
UploadFile(response) ==
    IF response.raised THEN "False"
    ELSE IF response.row /\ Contains(Upper(response.status), UPLOADED)
    THEN "True"
    ELSE IF response.row /\ Contains(Upper(response.status), SKIPPED)
    THEN "SKIPPED"
    ELSE "False"

\* where PUT file://... @stage_name puts a file: the root of the stage
StagePath(name) == <<"STAGE", name>>

\* PUT ... OVERWRITE=TRUE: the file is stored whatever the stage holds
PutResponsesOverwrite(name, staged) ==
    {PutRaised, PutNoRow, PutRow(<<"E", "R", "R", "O", "R">>),
     PutRow(UPLOADED)}

\* the answers of Snowflake to PUT ... OVERWRITE=FALSE of a file: with an
\* object of that path on the stage the file is skipped, without one it is
\* stored; the statement can also fail, in an exception or in its status
PutResponses(name, staged) ==
    {PutRaised, PutNoRow, PutRow(<<"E", "R", "R", "O", "R">>)}
    \cup (IF StagePath(name) \in staged
          THEN {PutRow(SKIPPED)}
          ELSE {PutRow(UPLOADED), PutRow(<<"u", "p", "l", "o", "a", "d", "e", "d">>)})

\* the stage after the PUT
StageAfterPut(name, staged, response) ==
    IF response.row /\ Contains(Upper(response.status), UPLOADED)
    THEN staged \cup {StagePath(name)}
    ELSE staged

\* the record of the objects stored, with the run that stored each
WrittenAfterPut(name, log, response, by) ==
    IF response.row /\ Contains(Upper(response.status), UPLOADED)
    THEN Append(log, [path |-> StagePath(name), by |-> by])
    ELSE log

\* a statement run on a cursor (lines 103, 174, 277), the file it names and
\* what Snowflake answered
Statement(sql, name, response) ==
    [sql |-> sql, file |-> name, response |-> response]

\* the answers of Snowflake to LIST @stage_name: the paths on the stage, or
\* an exception
ListResponses(staged) ==
    {[raised |-> TRUE, rows |-> {}], [raised |-> FALSE, rows |-> staged]}

\* get_stage_files treating every failure as every file being staged
GetStageFilesAssumesAll(response) ==
    IF response.raised
    THEN {NameOrder[k] : k \in 1..Len(NameOrder)}
    ELSE StageFiles(response.rows)

\* the value get_stage_files returns (lines 100-119): the names listed,
\* set() when the listing raised
GetStageFiles(response) ==
    IF response.raised THEN {} ELSE StageFiles(response.rows)

\* the three counters (lines 244-246)
NoCounts == [uploaded_count |-> 0, skipped_count |-> 0, failed_count |-> 0]

\* the counting with a failed transfer left out
TallyDropsFailed(c, result) ==
    IF result = "True" THEN [c EXCEPT !.uploaded_count = @ + 1]
    ELSE IF result = "SKIPPED" THEN [c EXCEPT !.skipped_count = @ + 1]
    ELSE c

\* the counting of a result (lines 254-262)
Tally(c, result) ==
    IF result = "True" THEN [c EXCEPT !.uploaded_count = @ + 1]
    ELSE IF result = "SKIPPED" THEN [c EXCEPT !.skipped_count = @ + 1]
    ELSE [c EXCEPT !.failed_count = @ + 1]

\* what a process finds: rsa_key.p8 (present, missing, or not a key),
\* config.json (loaded, missing, unparseable, or loaded with the account
\* of the template), and Snowflake accepting the connection or not
Environment(key_file, config, connection) ==
    [process |-> TRUE, key_file |-> key_file, config |-> config,
     connection |-> connection]

\* no process: upload_av_files is called with a config that was loaded,
\* and connect_to_snowflake gives it a connection
NoProcess ==
    [process |-> FALSE, key_file |-> "present", config |-> "loaded",
     connection |-> "accepted"]

\* connect_to_snowflake (lines 72-93) returns a connection: the key was
\* loaded (line 77) and connect did not raise (lines 80-90)
Connects(env) == env.key_file = "present" /\ env.connection = "accepted"

\* no process has been started, and no run was made before
ProcessIdle ==
    /\ environment = NoProcess
    /\ exit_code = NoneNum
    /\ previous_runs = <<>>

\* the uploader has not run
UploaderIdle ==
    /\ written = <<>>
    /\ ProcessIdle
    /\ directory = MissingDirectory
    /\ stage = {}
    /\ conn = "none"
    /\ executed = <<>>
    /\ local_files = <<>>
    /\ stage_files = {}
    /\ files_to_upload = <<>>
    /\ already_uploaded = <<>>
    /\ uploaded_count = 0
    /\ skipped_count = 0
    /\ failed_count = 0

----------------------------------------------------------------------------
(* Inputs *)

Seg(speaker, text, start_time, end_time) ==
    [speaker |-> speaker, text |-> text,
     start_time |-> start_time, end_time |-> end_time]

\* every list of at most n elements of S
SeqsUpTo(S, n) == UNION {[1..k -> S] : k \in 0..n}

\* segments whose times meet, leave a gap, overlap or end at 0
TimingPool ==
    {Seg("A", <<"x">>, s, e) : s \in {0, 1000, 3000}, e \in {0, 1000, 5000}}
    \cup {Seg("B", <<"y">>, 1000, 1000), Seg("B", <<"y">>, 0, 5000)}

\* segments of one speaker, 1 s apart, with empty, blank and padded texts
TextPool ==
    {Seg("A", tx, s, s + 1000) :
        tx \in {<<>>, <<" ">>, <<"x">>, <<" ", "y">>}, s \in {0, 1000}}

\* dicts with a null speaker or with keys missing
SpeakerPool ==
    {Seg(None, <<"x">>, 0, 1000),
     Seg("A", <<"y">>, 1000, 2000),
     [text |-> <<"z">>],
     [speaker |-> "Unknown", text |-> <<"w">>, start_time |-> 500]}

\* the round-trip scenario: A "hello" 0-2, A "world" 2.5-4, B "hi" 5-6
ExampleSegments ==
    <<Seg("A", <<"h", "e", "l", "l", "o">>, 0, 2000),
      Seg("A", <<"w", "o", "r", "l", "d">>, 2500, 4000),
      Seg("B", <<"h", "i">>, 5000, 6000)>>

ExamplePool == {ExampleSegments[i] : i \in 1..3}

\* segments of two speakers with matching ("x") and other ("y") texts
SearchViewPool ==
    {Seg(sp, tx, t[1], t[2]) :
        sp \in {"A", "B"}, tx \in {<<"x">>, <<"y">>},
        t \in {<<0, 0>>, <<1000, 2000>>}}

TranscriptInputs ==
    SeqsUpTo(TimingPool, MaxSegs) \cup SeqsUpTo(TextPool, MaxSegs)
    \cup SeqsUpTo(SpeakerPool, MaxSegs) \cup SeqsUpTo(ExamplePool, MaxSegs)

SearchViewInputs == SeqsUpTo(SearchViewPool, MaxSegs)

----------------------------------------------------------------------------
(* The transcript view and the search view: grouping, step by step *)

DST == "display_speaker_transcript"
DSR == "display_search_result_with_speakers"

Init ==
    /\ pc = "call"
    /\ \/ /\ fn = DST
          /\ speaker_segments \in TranscriptInputs
          /\ search_term = <<>>
          /\ context_size = 0
       \/ /\ fn = DSR
          /\ speaker_segments \in SearchViewInputs
          /\ search_term = <<"x">>
          /\ context_size \in 0..MaxContext
    /\ sorted_segments = <<>>
    /\ idx = 0
    /\ grouping = GroupingInit
    /\ matching_indices = <<>>
    /\ context = ContextInit
    /\ context_segments = <<>>
    /\ include_speakers = TRUE
    /\ srt = SrtInit
    /\ CsvIdle /\ HeapIdle /\ UploaderIdle /\ ViewIdle

\* display_speaker_transcript up to its loop (lines 396-417)
DST_Enter ==
    /\ fn = DST /\ pc = "call"
    /\ IF speaker_segments = <<>>
       THEN /\ pc' = "returned"
            /\ UNCHANGED <<sorted_segments, grouping>>
       ELSE /\ pc' = "loop"
            /\ sorted_segments' = SortedByStartTime(speaker_segments)
            /\ grouping' = GroupingInit
    /\ idx' = 0
    /\ UNCHANGED <<fn, speaker_segments, search_term, context_size,
                   matching_indices, context, context_segments,
                   include_speakers, srt>>
    /\ UNCHANGED <<csvVars, heapVars, viewVars, uploaderVars, viewVars>>

\* one iteration of "for segment in sorted_segments" (lines 419-442)
DST_Step ==
    /\ fn = DST /\ pc = "loop"
    /\ idx < Len(sorted_segments)
    /\ grouping' = TranscriptStep(grouping, sorted_segments[idx + 1])
    /\ idx' = idx + 1
    /\ UNCHANGED <<fn, pc, speaker_segments, search_term, context_size,
                   sorted_segments, matching_indices, context,
                   context_segments, include_speakers, srt>>
    /\ UNCHANGED <<csvVars, heapVars, viewVars, uploaderVars, viewVars>>

\* the end of the loop and the last append (lines 444-451)
DST_Flush ==
    /\ fn = DST /\ pc = "loop"
    /\ idx = Len(sorted_segments)
    /\ grouping' = TranscriptFlush(grouping)
    /\ pc' = "returned"
    /\ UNCHANGED <<fn, speaker_segments, search_term, context_size,
                   sorted_segments, idx, matching_indices, context,
                   context_segments, include_speakers, srt>>
    /\ UNCHANGED <<csvVars, heapVars, viewVars, uploaderVars, viewVars>>

\* one search result row of main (lines 976-984, 1038) and
\* display_search_result_with_speakers up to its loop (lines 267-287)
SearchView ==
    /\ fn = DSR /\ pc = "call"
    /\ context_segments' =
           IF speaker_segments = <<>>
           THEN <<>>
           ELSE FindMatchingSegmentsWithContext(
                    speaker_segments, search_term, context_size)
    /\ pc' = IF context_segments' # <<>> THEN "loop" ELSE "returned"
    /\ grouping' = GroupingInit
    /\ idx' = 0
    /\ UNCHANGED <<fn, speaker_segments, search_term, context_size,
                   sorted_segments, matching_indices, context,
                   include_speakers, srt>>
    /\ UNCHANGED <<csvVars, heapVars, viewVars, uploaderVars, viewVars>>

\* one iteration of "for segment in speaker_segments" (lines 289-322)
DSR_Step ==
    /\ fn = DSR /\ pc = "loop"
    /\ idx < Len(context_segments)
    /\ grouping' = SearchStep(grouping, context_segments[idx + 1])
    /\ idx' = idx + 1
    /\ UNCHANGED <<fn, pc, speaker_segments, search_term, context_size,
                   sorted_segments, matching_indices, context,
                   context_segments, include_speakers, srt>>
    /\ UNCHANGED <<csvVars, heapVars, viewVars, uploaderVars, viewVars>>

\* the end of the loop and the last append (lines 324-333)
DSR_Flush ==
    /\ fn = DSR /\ pc = "loop"
    /\ idx = Len(context_segments)
    /\ grouping' = SearchFlush(grouping)
    /\ pc' = "returned"
    /\ UNCHANGED <<fn, speaker_segments, search_term, context_size,
                   sorted_segments, idx, matching_indices, context,
                   context_segments, include_speakers, srt>>
    /\ UNCHANGED <<csvVars, heapVars, viewVars, uploaderVars, viewVars>>

Next ==
    \/ DST_Enter
    \/ DST_Step
    \/ DST_Flush
    \/ SearchView
    \/ DSR_Step
    \/ DSR_Flush

Spec == Init /\ [][Next]_vars

----------------------------------------------------------------------------
(* Claims about the grouping loops *)

\* the list a grouping loop runs over, and the segment it consumes next
LoopList == IF fn = DST THEN sorted_segments ELSE context_segments

\* the step from this state to the next consumed one more segment while an
\* accumulator was open: the pair (accumulator, segment) is an adjacent pair
AdjacentPairStep ==
    /\ pc = "loop" /\ pc' = "loop"
    /\ idx >= 1 /\ idx' = idx + 1

\* the step merged the segment into the accumulator
StepMerged ==
    /\ grouping'.current_text =
           grouping.current_text \o <<" ">>
               \o Strip(Get(LoopList[idx + 1], "text", <<>>))
    /\ grouping'.current_start = grouping.current_start
    /\ grouping'.grouped_segments = grouping.grouped_segments

\* the merge criterion as the specification words it
StatedCriterion ==
    LET segment == LoopList[idx + 1]
    IN  /\ Get(segment, "speaker", "Unknown") = grouping.current_speaker
        /\ Get(segment, "start_time", 0) - grouping.current_end < MergeGapMs
        /\ fn = DSR =>
               /\ Get(segment, "is_match", FALSE) = grouping.current_is_match
               /\ Get(segment, "context_group", NoneNum)
                      = grouping.current_context_group

\* C1: in both grouping loops, a segment is merged into the accumulator if
\* and only if it has the accumulator's speaker, the gap from the
\* accumulator's end to its start is below 2 seconds and, in the search
\* view, is_match and context_group are those of the accumulator.
C1_MergeIffCriterion ==
    [][AdjacentPairStep => (StepMerged <=> StatedCriterion)]_vars

\* the transcript view has returned the grouping of a two-segment list whose
\* segments carry the same speaker label, less than 2 s apart, and merged them
MergedPair ==
    /\ fn = DST /\ pc = "returned"
    /\ Len(sorted_segments) = 2
    /\ Get(sorted_segments[1], "speaker", "Unknown")
           = Get(sorted_segments[2], "speaker", "Unknown")
    /\ Get(sorted_segments[1], "speaker", "Unknown") # None
    /\ Get(sorted_segments[2], "start_time", 0)
           - Get(sorted_segments[1], "end_time", 0) < MergeGapMs
    /\ Len(grouping.grouped_segments) = 1

\* the expected result of the round-trip scenario
ExampleGrouped ==
    <<Seg("A", <<"h", "e", "l", "l", "o", " ", "w", "o", "r", "l", "d">>,
          0, 4000),
      Seg("B", <<"h", "i">>, 5000, 6000)>>

ExampleHolds ==
    (fn = DST /\ pc = "returned" /\ speaker_segments = ExampleSegments)
        => grouping.grouped_segments = ExampleGrouped

\* C2 as stated: the merged segment's text is the two texts joined by one
\* space.
C2_MergedTextIsRawJoin ==
    /\ MergedPair =>
           grouping.grouped_segments =
               <<Seg(Get(sorted_segments[1], "speaker", "Unknown"),
                     Get(sorted_segments[1], "text", <<>>) \o <<" ">>
                         \o Get(sorted_segments[2], "text", <<>>),
                     Get(sorted_segments[1], "start_time", 0),
                     Get(sorted_segments[2], "end_time", 0))>>
    /\ ExampleHolds

\* C2, amended: merging two segments of the same speaker less than 2 s apart
\* yields exactly one segment: start_time of the earlier, end_time of the
\* later, and as text the two texts, each stripped of leading and trailing
\* whitespace, joined by one space; the round-trip scenario gives
\* [{A,"hello world",0,4},{B,"hi",5,6}].
C2_MergedSegment ==
    /\ MergedPair =>
           grouping.grouped_segments =
               <<Seg(Get(sorted_segments[1], "speaker", "Unknown"),
                     Strip(Get(sorted_segments[1], "text", <<>>)) \o <<" ">>
                         \o Strip(Get(sorted_segments[2], "text", <<>>)),
                     Get(sorted_segments[1], "start_time", 0),
                     Get(sorted_segments[2], "end_time", 0))>>
    /\ ExampleHolds

\* a merged pair whose first text carries leading whitespace and whose end
\* times differ
C2_Witness ==
    /\ MergedPair
    /\ Get(sorted_segments[1], "text", <<>>) = <<" ", "y">>
    /\ Get(sorted_segments[2], "text", <<>>) = <<"x">>
    /\ Get(sorted_segments[2], "end_time", 0)
           # Get(sorted_segments[1], "end_time", 0)

\* C3: the grouping of display_speaker_transcript, applied to its own
\* output, returns that output.
C3_Idempotent ==
    (fn = DST /\ pc = "returned") =>
        GroupedTranscript(grouping.grouped_segments)
            = grouping.grouped_segments

\* the texts of a list of segments, stripped, joined by single spaces
RECURSIVE JoinedTexts(_)
JoinedTexts(segments) ==
    IF segments = <<>> THEN <<>>
    ELSE IF Len(segments) = 1
         THEN Strip(Get(segments[1], "text", <<>>))
         ELSE Strip(Get(segments[1], "text", <<>>)) \o <<" ">>
                  \o JoinedTexts(Tail(segments))

\* the texts of grouped segments, as they are, joined by single spaces
RECURSIVE JoinedGroups(_)
JoinedGroups(groups) ==
    IF groups = <<>> THEN <<>>
    ELSE IF Len(groups) = 1
         THEN groups[1].text
         ELSE groups[1].text \o <<" ">> \o JoinedGroups(Tail(groups))

\* the arrangement of a list in ascending start_time order that keeps
\* segments of equal start_time in their order in the list
StableOrder(segments) ==
    LET n == Len(segments)
        p == CHOOSE q \in Permutations(1..n) :
                 \A i, j \in 1..n :
                     i < j =>
                         \/ StartKey(segments[q[i]]) < StartKey(segments[q[j]])
                         \/ /\ StartKey(segments[q[i]])
                                   = StartKey(segments[q[j]])
                            /\ q[i] < q[j]
    IN  [i \in 1..n |-> segments[p[i]]]

NoNullSpeaker(segments) ==
    \A i \in 1..Len(segments) :
        Get(segments[i], "speaker", "Unknown") # None

\* C4: for every input list the grouped list of the transcript view is in
\* ascending start_time order, and segments of equal start_time keep their
\* input order: the list the loop consumes is the input in stable order,
\* and the grouped texts read in that order.
C4_AscendingStable ==
    (fn = DST /\ pc = "returned" /\ speaker_segments # <<>>) =>
        LET out == grouping.grouped_segments
        IN  /\ \A i, j \in 1..Len(out) :
                   i < j => out[i].start_time <= out[j].start_time
            /\ sorted_segments = StableOrder(speaker_segments)
            /\ NoNullSpeaker(speaker_segments) =>
                   JoinedGroups(out) = JoinedTexts(StableOrder(speaker_segments))

\* an unsorted input with two segments of equal start_time and different
\* texts that end in different groups
C4_Witness ==
    /\ fn = DST /\ pc = "returned"
    /\ Len(speaker_segments) = 3
    /\ StartKey(speaker_segments[1]) > StartKey(speaker_segments[2])
    /\ StartKey(speaker_segments[2]) = StartKey(speaker_segments[3])
    /\ Get(speaker_segments[2], "text", <<>>)
           # Get(speaker_segments[3], "text", <<>>)
    /\ \E i \in 1..Len(grouping.grouped_segments) - 1 :
           grouping.grouped_segments[i].start_time
               = grouping.grouped_segments[i + 1].start_time

\* the list a grouping loop consumes
NormalizerInput == IF fn = DST THEN sorted_segments ELSE context_segments

\* C14: no input segment is lost by the normalizer: empty input gives
\* empty output, a single segment gives exactly one output segment, and
\* every input segment, whatever its speaker value (missing and null
\* included, missing times read as 0), contributes its text to exactly one
\* output segment: the grouped texts, joined, are the input texts, joined.
C14_NoSegmentLost ==
    (fn \in {DST, DSR} /\ pc = "returned") =>
        LET out == grouping.grouped_segments
        IN  /\ NormalizerInput = <<>> => out = <<>>
            /\ Len(NormalizerInput) = 1 => Len(out) = 1
            /\ JoinedGroups(out) = JoinedTexts(NormalizerInput)

----------------------------------------------------------------------------
(* find_matching_segments_with_context, step by step *)

FIND == "find_matching_segments_with_context"

\* segments with texts that hold "hi" in either case, or do not, some with
\* equal start times
MatchPool ==
    {Seg("A", tx, s, s + 1000) :
        tx \in {<<"h", "i">>, <<"H", "i">>, <<"h">>, <<>>}, s \in {0, 1000}}

SearchTerms == {<<>>, <<"H", "I">>, <<"i">>}

SearchInit ==
    /\ fn = FIND
    /\ pc = "call"
    /\ speaker_segments \in SeqsUpTo(MatchPool, MaxSegs)
    /\ search_term \in SearchTerms
    /\ context_size \in 0..MaxContext
    /\ sorted_segments = <<>>
    /\ idx = 0
    /\ grouping = GroupingInit
    /\ matching_indices = <<>>
    /\ context = ContextInit
    /\ context_segments = <<>>
    /\ include_speakers = TRUE
    /\ srt = SrtInit
    /\ CsvIdle /\ HeapIdle /\ UploaderIdle /\ ViewIdle

\* the guard, the sort and the match locator (lines 228-246)
Find_Enter ==
    /\ fn = FIND /\ pc = "call"
    /\ IF speaker_segments = <<>> \/ search_term = <<>>
       THEN /\ pc' = "returned"
            /\ context_segments' = <<>>
            /\ UNCHANGED <<sorted_segments, matching_indices>>
       ELSE /\ sorted_segments' = SortedByStartTime(speaker_segments)
            /\ matching_indices' =
                   MatchingIndices(sorted_segments', search_term)
            /\ pc' = IF matching_indices' = <<>> THEN "returned" ELSE "windows"
            /\ context_segments' = <<>>
    /\ context' = ContextInit
    /\ idx' = 0
    /\ UNCHANGED <<fn, speaker_segments, search_term, context_size, grouping,
                   include_speakers, srt>>
    /\ UNCHANGED <<csvVars, heapVars, viewVars, uploaderVars, viewVars>>

\* one iteration of "for match_idx in matching_indices" (lines 248-260)
Find_Window ==
    /\ fn = FIND /\ pc = "windows"
    /\ idx < Len(matching_indices)
    /\ context' = ContextStep(context, sorted_segments,
                              matching_indices[idx + 1], context_size)
    /\ idx' = idx + 1
    /\ UNCHANGED <<fn, pc, speaker_segments, search_term, context_size,
                   sorted_segments, grouping, matching_indices,
                   context_segments, include_speakers, srt>>
    /\ UNCHANGED <<csvVars, heapVars, viewVars, uploaderVars, viewVars>>

\* the final sort and the return (line 263)
Find_Return ==
    /\ fn = FIND /\ pc = "windows"
    /\ idx = Len(matching_indices)
    /\ context_segments' = SortedByStartTime(context.context_segments)
    /\ pc' = "returned"
    /\ UNCHANGED <<fn, speaker_segments, search_term, context_size,
                   sorted_segments, idx, grouping, matching_indices, context,
                   include_speakers, srt>>
    /\ UNCHANGED <<csvVars, heapVars, viewVars, uploaderVars, viewVars>>

SearchNext ==
    \/ Find_Enter
    \/ Find_Window
    \/ Find_Return

SpecSearch == SearchInit /\ [][SearchNext]_vars

----------------------------------------------------------------------------
(* Claims about find_matching_segments_with_context *)

\* the lower-cased term occurs in the lower-cased text, character by character
FoldedOccurs(text, term) ==
    \E off \in 0..(Len(text) - Len(term)) :
        \A j \in 1..Len(term) : LowerChar(text[off + j]) = LowerChar(term[j])

\* the 0-based indices of the start-time-sorted input whose text holds the term
MatchSet ==
    LET ordered == StableOrder(speaker_segments)
    IN  {i \in 0..(Len(ordered) - 1) :
            FoldedOccurs(Get(ordered[i + 1], "text", <<>>), search_term)}

\* the indices within context_size of match index m
Window(m) ==
    {i \in 0..(Len(speaker_segments) - 1) :
        m - context_size <= i /\ i <= m + context_size}

\* the k-th smallest element of a set of numbers
KthSmallest(S, k) ==
    CHOOSE x \in S : Cardinality({y \in S : y < x}) = k - 1

\* a tagged copy without its tags
Untagged(segment) ==
    [k \in DOMAIN segment \ {"is_match", "context_group"} |-> segment[k]]

\* the list of tagged copies: the local one while the loop runs, the
\* returned one afterwards
OutList ==
    IF pc = "returned" THEN context_segments ELSE context.context_segments

\* the index in sorted_segments of the k-th element of OutList: the copies
\* are the segments at added_indices, in ascending index order
OutIndex(k) == KthSmallest(context.added_indices, k)

OutIsAddedInOrder ==
    /\ Len(OutList) = Cardinality(context.added_indices)
    /\ \A k \in 1..Len(OutList) :
           Untagged(OutList[k]) = sorted_segments[OutIndex(k) + 1]

FindReturned ==
    /\ fn = FIND /\ pc = "returned"
    /\ speaker_segments # <<>> /\ search_term # <<>>

\* C5: every segment whose text contains the search term is in the output
\* with is_match = true, for every context_size and also when the windows
\* of different matches overlap.
C5_MatchesTaggedTrue ==
    FindReturned =>
        \A m \in MatchSet :
            \E k \in 1..Len(context_segments) :
                /\ OutIndex(k) = m
                /\ Untagged(context_segments[k]) = sorted_segments[m + 1]
                /\ context_segments[k].is_match = TRUE

\* C6: the output is in ascending start_time order and holds each segment
\* of the sorted input at most once: its elements are the copies of the
\* segments at distinct, ascending indices.
C6_SortedNoDuplicates ==
    FindReturned =>
        /\ \A i, j \in 1..Len(context_segments) :
               i < j => StartKey(context_segments[i])
                            <= StartKey(context_segments[j])
        /\ OutIsAddedInOrder
        /\ Len(context_segments) <= Len(sorted_segments)

\* two matches whose windows overlap, with segments returned
C6_Witness ==
    /\ FindReturned
    /\ context_size >= 1
    /\ \E m1, m2 \in MatchSet : m1 < m2 /\ Window(m1) \cap Window(m2) # {}
    /\ Len(context_segments) = 3

\* C7: for every match index m at most 2*context_size + 1 output segments
\* carry context_group = m, each at an index within context_size of m.
C7_WindowBound ==
    FindReturned =>
        /\ OutIsAddedInOrder
        /\ \A m \in MatchSet :
               LET members == {k \in 1..Len(context_segments) :
                                  context_segments[k].context_group = m}
               IN  /\ Cardinality(members) <= 2 * context_size + 1
                   /\ \A k \in members : OutIndex(k) \in Window(m)

\* a match in the middle of the list with a full window of three segments
C7_Witness ==
    /\ FindReturned
    /\ context_size = 1
    /\ MatchSet = {1}
    /\ Len(speaker_segments) = 3
    /\ \A k \in 1..3 : context_segments[k].context_group = 1

\* the smallest match index whose window holds index i
FirstMatchCovering(i) ==
    CHOOSE m \in MatchSet :
        /\ i \in Window(m)
        /\ \A n \in MatchSet : i \in Window(n) => m <= n

\* C8: at every point of the loop over the matches and at the return, each
\* tagged copy carries as context_group the smallest match index whose
\* window contains it; a later match never overwrites it.
C8_FirstGroupKept ==
    (fn = FIND /\ pc \in {"windows", "returned"}
        /\ speaker_segments # <<>> /\ search_term # <<>>) =>
        /\ OutIsAddedInOrder
        /\ \A k \in 1..Len(OutList) :
               OutList[k].context_group = FirstMatchCovering(OutIndex(k))

\* a returned segment that lies in the windows of two matches
C8_Witness ==
    /\ FindReturned
    /\ \E k \in 1..Len(context_segments) :
           \E m1, m2 \in MatchSet :
               /\ m1 < m2
               /\ OutIndex(k) \in Window(m1) \cap Window(m2)
               /\ context_segments[k].context_group = m1

\* C9: the match locator selects index i of the start-time-sorted list if
\* and only if the lower-cased term occurs in the lower-cased text of
\* segment i; with an empty term, an empty list or no match the function
\* returns the empty list.
C9_MatchLocator ==
    (fn = FIND /\ pc # "call") =>
        IF speaker_segments = <<>> \/ search_term = <<>>
        THEN pc = "returned" /\ context_segments = <<>>
        ELSE /\ \A i \in 0..(Len(speaker_segments) - 1) :
                    (\E k \in 1..Len(matching_indices) :
                         matching_indices[k] = i) <=> i \in MatchSet
             /\ \A k \in 1..(Len(matching_indices) - 1) :
                    matching_indices[k] < matching_indices[k + 1]
             /\ MatchSet = {} => (pc = "returned" /\ context_segments = <<>>)

\* a segment selected only because both sides are lower-cased
C9_Witness ==
    /\ fn = FIND /\ pc = "windows"
    /\ search_term = <<"H", "I">>
    /\ Len(sorted_segments) = 2
    /\ sorted_segments[1].text = <<"h">>
    /\ sorted_segments[2].text = <<"H", "i">>
    /\ matching_indices = <<1>>

\* the window of match index m as the claim writes it
StatedWindow(m) ==
    LET len == Len(sorted_segments)
        lo == IF m - context_size > 0 THEN m - context_size ELSE 0
        hi == IF m + context_size + 1 < len THEN m + context_size + 1
              ELSE len
    IN  {i \in 0..(len - 1) : lo <= i /\ i < hi}

\* C25: the set of segments returned is exactly the union of the match
\* windows: index i of the sorted list is in the output iff there is a
\* match index m with max(0, m - context_size) <= i
\* < min(len, m + context_size + 1); with context_size = 0 the output is
\* exactly the matching segments.
C25_OutputIsUnionOfWindows ==
    FindReturned =>
        /\ OutIsAddedInOrder
        /\ \A i \in 0..(Len(sorted_segments) - 1) :
               i \in context.added_indices
                   <=> \E m \in MatchSet : i \in StatedWindow(m)
        /\ context_size = 0 =>
               /\ context.added_indices = MatchSet
               /\ Len(context_segments) = Cardinality(MatchSet)

\* the first of three segments matches: its window holds the second and
\* leaves the third out
C25_Witness ==
    /\ FindReturned
    /\ context_size = 1
    /\ Len(sorted_segments) = 3
    /\ MatchSet = {0}
    /\ context.added_indices = {0, 1}
    /\ Len(context_segments) = 2

----------------------------------------------------------------------------
(* The SRT exporters, step by step *)

SRT == "convert_speaker_segments_to_srt"
SSRT == "convert_search_results_to_srt"

\* segments of one speaker with empty, blank and non-empty texts
SrtTextPool ==
    {Seg("A", tx, s, s + 1000) :
        tx \in {<<>>, <<" ">>, <<"x">>, <<"y">>}, s \in {0, 1500}}

\* segments with a named, an "Unknown" and a missing speaker
SrtSpeakerPool ==
    {Seg("A", <<"x">>, 0, 15200),
     Seg("Unknown", <<"x">>, 1500, 3661200),
     [text |-> <<"y">>, start_time |-> 1500, end_time |-> 2500],
     Seg("B", <<"y">>, 3661200, 3662000)}

SrtInputs ==
    SeqsUpTo(SrtTextPool, MaxSegs) \cup SeqsUpTo(SrtSpeakerPool, MaxSegs)

SrtSpecInit ==
    /\ pc = "call"
    /\ speaker_segments \in SrtInputs
    /\ include_speakers \in BOOLEAN
    /\ \/ /\ fn = SRT
          /\ search_term = <<>>
          /\ context_size = 0
       \/ /\ fn = SSRT
          /\ search_term = <<"x">>
          /\ context_size \in 0..MaxContext
    /\ sorted_segments = <<>>
    /\ idx = 0
    /\ grouping = GroupingInit
    /\ matching_indices = <<>>
    /\ context = ContextInit
    /\ context_segments = <<>>
    /\ srt = SrtInit
    /\ CsvIdle /\ HeapIdle /\ UploaderIdle /\ ViewIdle

\* convert_speaker_segments_to_srt up to its loop (lines 709-715)
SRT_Enter ==
    /\ fn = SRT /\ pc = "call"
    /\ IF speaker_segments = <<>>
       THEN pc' = "returned" /\ UNCHANGED sorted_segments
       ELSE /\ pc' = "loop"
            /\ sorted_segments' = SortedByStartTime(speaker_segments)
    /\ srt' = SrtInit
    /\ idx' = 0
    /\ UNCHANGED <<fn, speaker_segments, search_term, context_size, grouping,
                   matching_indices, context, context_segments,
                   include_speakers>>
    /\ UNCHANGED <<csvVars, heapVars, viewVars, uploaderVars, viewVars>>

\* one iteration of "for i, segment in enumerate(sorted_segments, 1)"
SRT_Step ==
    /\ fn = SRT /\ pc = "loop"
    /\ idx < Len(sorted_segments)
    /\ srt' = SpeakerSrtStep(srt, idx + 1, sorted_segments[idx + 1],
                             include_speakers)
    /\ idx' = idx + 1
    /\ UNCHANGED <<fn, pc, speaker_segments, search_term, context_size,
                   sorted_segments, grouping, matching_indices, context,
                   context_segments, include_speakers>>
    /\ UNCHANGED <<csvVars, heapVars, viewVars, uploaderVars, viewVars>>

\* one search result row of main (lines 976-984, 1001) and
\* convert_search_results_to_srt up to its loop (lines 752-759)
SSRT_Enter ==
    /\ fn = SSRT /\ pc = "call"
    /\ context_segments' =
           IF speaker_segments = <<>>
           THEN <<>>
           ELSE FindMatchingSegmentsWithContext(
                    speaker_segments, search_term, context_size)
    /\ IF context_segments' = <<>>
       THEN pc' = "returned" /\ UNCHANGED sorted_segments
       ELSE /\ pc' = "loop"
            /\ sorted_segments' = SortedByStartTime(context_segments')
    /\ srt' = SrtInit
    /\ idx' = 0
    /\ UNCHANGED <<fn, speaker_segments, search_term, context_size, grouping,
                   matching_indices, context, include_speakers>>
    /\ UNCHANGED <<csvVars, heapVars, viewVars, uploaderVars, viewVars>>

\* one iteration of "for segment in sorted_segments" (lines 761-798)
SSRT_Step ==
    /\ fn = SSRT /\ pc = "loop"
    /\ idx < Len(sorted_segments)
    /\ srt' = SearchSrtStep(srt, sorted_segments[idx + 1], include_speakers)
    /\ idx' = idx + 1
    /\ UNCHANGED <<fn, pc, speaker_segments, search_term, context_size,
                   sorted_segments, grouping, matching_indices, context,
                   context_segments, include_speakers>>
    /\ UNCHANGED <<csvVars, heapVars, viewVars, uploaderVars, viewVars>>

\* the end of either loop and the return of the joined entries
\* (lines 748, 800)
SRT_Return ==
    /\ fn \in {SRT, SSRT} /\ pc = "loop"
    /\ idx = Len(sorted_segments)
    /\ pc' = "returned"
    /\ UNCHANGED <<fn, speaker_segments, search_term, context_size,
                   sorted_segments, idx, grouping, matching_indices, context,
                   context_segments, include_speakers, srt>>
    /\ UNCHANGED <<csvVars, heapVars, viewVars, uploaderVars, viewVars>>

SrtNext ==
    \/ SRT_Enter
    \/ SRT_Step
    \/ SSRT_Enter
    \/ SSRT_Step
    \/ SRT_Return

SpecSrt == SrtSpecInit /\ [][SrtNext]_vars

----------------------------------------------------------------------------
(* Claims about the SRT exporters *)

\* the exporter has returned the entries of a non-empty list
SrtReturned ==
    /\ fn \in {SRT, SSRT} /\ pc = "returned"
    /\ sorted_segments # <<>>

\* C10: in both SRT exporters the number of entries equals the number of
\* input segments with non-empty text (empty once stripped, as the
\* exporters read it) and the entries are numbered 1, 2, ..., n without a
\* gap, also when segments with empty text come before or between others.
C10_EntriesNumberedFromOne ==
    SrtReturned =>
        /\ Len(srt.srt_content) =
               Cardinality({i \in 1..Len(sorted_segments) :
                   Strip(Get(sorted_segments[i], "text", <<>>)) # <<>>})
        /\ \A k \in 1..Len(srt.srt_content) : srt.srt_content[k].index = k

\* the segments the loop has written an entry for, in the order of the
\* entries: those it has taken whose stripped text is not empty
WrittenSegments ==
    SelectSeq(SubSeq(sorted_segments, 1, idx),
              LAMBDA segment : Strip(Get(segment, "text", <<>>)) # <<>>)

\* the text line as stated: a label only when speakers are included and the
\* speaker is not "Unknown", [MATCH] only after the label of a match
StatedTextLine(segment) ==
    LET speaker == Get(segment, "speaker", "Unknown")
        text == Strip(Get(segment, "text", <<>>))
    IN  IF include_speakers /\ speaker # "Unknown"
        THEN IF Get(segment, "is_match", FALSE)
             THEN <<speaker, " ", "[MATCH]", ":", " ">> \o text
             ELSE <<speaker, ":", " ">> \o text
        ELSE text

\* C11: in both SRT exporters the text line of an entry carries a prefix
\* ("<speaker>: " or "<speaker> [MATCH]: ") only when speaker inclusion is
\* enabled and the speaker is not "Unknown"; otherwise the text line is
\* exactly the segment text, for match and context segments alike, and
\* [MATCH] appears only appended to the speaker label of a match.
C11_PrefixOnlyWithSpeaker ==
    /\ Len(srt.srt_content) = Len(WrittenSegments)
    /\ \A k \in 1..Len(srt.srt_content) :
           srt.srt_content[k].subtitle_text =
               StatedTextLine(WrittenSegments[k])

\* HH:MM:SS,mmm of a time of t whole milliseconds, as stated
StatedTimestamp(t) ==
    ZeroPadded(Decimal(t \div 3600000), 2) \o <<":">>
    \o ZeroPadded(Decimal((t % 3600000) \div 60000), 2) \o <<":">>
    \o ZeroPadded(Decimal((t \div 1000) % 60), 2) \o <<",">>
    \o ZeroPadded(Decimal(t % 1000), 3)

\* C12: for every non-negative time t the SRT timestamp is HH:MM:SS,mmm
\* with HH = floor(t / 3600 s), MM = floor((t mod 3600 s) / 60 s),
\* SS = floor(t) mod 60 and mmm the millisecond part of t, the fields
\* zero-padded to 2, 2, 2 and 3 digits; 15.2 s yields 00:00:15,200.
C12_TimestampOfMilliseconds ==
    /\ Len(srt.srt_content) = Len(WrittenSegments)
    /\ \A k \in 1..Len(srt.srt_content) :
           /\ srt.srt_content[k].start_timestamp =
                  StatedTimestamp(Get(WrittenSegments[k], "start_time", 0))
           /\ srt.srt_content[k].end_timestamp =
                  StatedTimestamp(Get(WrittenSegments[k], "end_time", 0))

----------------------------------------------------------------------------
(* The CSV exporters, step by step *)

CSV == "convert_speaker_segments_to_csv"
SCSV == "convert_search_results_to_csv"

\* the file_info dict main builds for a row (lines 985-990, 1122-1127)
RowFileInfo ==
    [filename |-> "f.mp3", language |-> "en", duration |-> 15200,
     speaker_count |-> 2]

\* texts datetime.now().strftime(...) can give (lines 547, 679)
Clock == {"2024-01-01 00:00:00", "2024-01-01 00:00:01"}

CsvInputs ==
    SeqsUpTo(SrtTextPool, MaxSegs) \cup SeqsUpTo(SrtSpeakerPool, MaxSegs)

CsvSpecInit ==
    /\ pc = "call"
    /\ speaker_segments \in CsvInputs
    /\ file_info \in {NoFileInfo, RowFileInfo}
    /\ \/ /\ fn = CSV
          /\ search_term = <<>>
          /\ context_size = 0
       \/ /\ fn = SCSV
          /\ search_term = <<"x">>
          /\ context_size \in 0..MaxContext
    /\ sorted_segments = <<>>
    /\ idx = 0
    /\ grouping = GroupingInit
    /\ matching_indices = <<>>
    /\ context = ContextInit
    /\ context_segments = <<>>
    /\ include_speakers = TRUE
    /\ srt = SrtInit
    /\ csv = CsvInit
    /\ HeapIdle /\ UploaderIdle /\ ViewIdle

\* convert_speaker_segments_to_csv up to its loop (lines 475-482)
CSV_Enter ==
    /\ fn = CSV /\ pc = "call"
    /\ IF speaker_segments = <<>>
       THEN pc' = "returned None" /\ UNCHANGED sorted_segments
       ELSE /\ pc' = "loop"
            /\ sorted_segments' = SortedByStartTime(speaker_segments)
    /\ csv' = CsvInit
    /\ idx' = 0
    /\ UNCHANGED <<fn, speaker_segments, search_term, context_size, grouping,
                   matching_indices, context, context_segments,
                   include_speakers, srt, file_info, heapVars, uploaderVars, viewVars>>

\* one iteration of "for i, segment in enumerate(sorted_segments, 1)"
\* (lines 484-506)
CSV_Step ==
    /\ fn = CSV /\ pc = "loop"
    /\ idx < Len(sorted_segments)
    /\ csv' = [csv EXCEPT !.csv_data =
                  Append(@, SpeakerCsvRow(idx + 1, sorted_segments[idx + 1]))]
    /\ idx' = idx + 1
    /\ UNCHANGED <<fn, pc, segmentVars, file_info, heapVars, uploaderVars, viewVars>>

\* one search result row of main (lines 976-984, 1000) and
\* convert_search_results_to_csv up to its loop (lines 585-592)
SCSV_Enter ==
    /\ fn = SCSV /\ pc = "call"
    /\ context_segments' =
           IF speaker_segments = <<>>
           THEN <<>>
           ELSE FindMatchingSegmentsWithContext(
                    speaker_segments, search_term, context_size)
    /\ IF context_segments' = <<>>
       THEN pc' = "returned None" /\ UNCHANGED sorted_segments
       ELSE /\ pc' = "loop"
            /\ sorted_segments' = SortedByStartTime(context_segments')
    /\ csv' = CsvInit
    /\ idx' = 0
    /\ UNCHANGED <<fn, speaker_segments, search_term, context_size, grouping,
                   matching_indices, context, include_speakers, srt,
                   file_info, heapVars, uploaderVars, viewVars>>

\* one iteration of the loop of lines 594-620
SCSV_Step ==
    /\ fn = SCSV /\ pc = "loop"
    /\ idx < Len(sorted_segments)
    /\ csv' = [csv EXCEPT !.csv_data =
                  Append(@, SearchCsvRow(idx + 1, sorted_segments[idx + 1]))]
    /\ idx' = idx + 1
    /\ UNCHANGED <<fn, pc, segmentVars, file_info, heapVars, uploaderVars, viewVars>>

\* the end of either loop: the frame, with the metadata rows in front when
\* file_info is given (lines 509-569, 623-705)
CSV_Return ==
    /\ fn \in {CSV, SCSV} /\ pc = "loop"
    /\ idx = Len(sorted_segments)
    /\ \E now \in Clock :
           csv' = [csv EXCEPT !.df =
               FrameWithMetadata(
                   IF fn = CSV
                   THEN SpeakerMetadataRows(file_info, now)
                   ELSE SearchMetadataRows(file_info, search_term, now),
                   csv.csv_data, file_info)]
    /\ pc' = "returned"
    /\ UNCHANGED <<fn, idx, segmentVars, file_info, heapVars, uploaderVars, viewVars>>

CsvNext ==
    \/ CSV_Enter
    \/ CSV_Step
    \/ SCSV_Enter
    \/ SCSV_Step
    \/ CSV_Return

SpecCsv == CsvSpecInit /\ [][CsvNext]_vars

----------------------------------------------------------------------------
(* Claims about the CSV exporters *)

\* a CSV exporter has returned, a frame or None
CsvReturned == fn \in {CSV, SCSV} /\ pc \in {"returned", "returned None"}

\* the list the exporter was given
CsvInput == IF fn = CSV THEN speaker_segments ELSE context_segments

\* the rows of the frame after the metadata rows and the separator row
DataRows ==
    LET header == IF DOMAIN file_info = {} \/ csv.df = <<>> THEN 0
                  ELSE IF fn = CSV THEN 5 ELSE 6
    IN  SubSeq(csv.df, header + 1, Len(csv.df))

\* the entries the SRT exporter of the same view writes for the same list
SrtEntriesOfInput ==
    IF fn = CSV
    THEN ConvertSpeakerSegmentsToSrt(CsvInput, TRUE)
    ELSE ConvertSearchResultsToSrt(CsvInput, TRUE)

\* one data row per segment of the list, in ascending start_time order,
\* numbered 1, 2, ..., n, empty texts included
OneRowPerSegment ==
    LET sorted == SortedByStartTime(CsvInput)
    IN  /\ Len(DataRows) = Len(CsvInput)
        /\ \A k \in 1..Len(DataRows) :
               /\ DataRows[k].Segment = k
               /\ DataRows[k].Speaker = Get(sorted[k], "speaker", "Unknown")
               /\ DataRows[k].Text = Strip(Get(sorted[k], "text", <<>>))
               /\ DataRows[k].Start_Seconds = Get(sorted[k], "start_time", 0)
        /\ \A k \in 1..(Len(DataRows) - 1) :
               DataRows[k].Start_Seconds <= DataRows[k + 1].Start_Seconds
        /\ Len(DataRows) >= Len(SrtEntriesOfInput)

\* C13 as stated: both CSV exporters emit exactly one data record per input
\* segment, in ascending start_time order, numbered 1, 2, ..., n, segments
\* with empty text included; the CSV data-row count is >= the SRT entry
\* count for the same input, with equality iff no segment has empty text.
C13_EqualCountIffNoEmptyText ==
    CsvReturned =>
        /\ OneRowPerSegment
        /\ Len(DataRows) = Len(SrtEntriesOfInput)
           <=> \A k \in 1..Len(CsvInput) :
                   Get(CsvInput[k], "text", <<>>) # <<>>

\* C13: both CSV exporters emit exactly one data record per input segment,
\* in ascending start_time order, numbered 1, 2, ..., n, segments with
\* empty text included; the CSV data-row count is >= the SRT entry count
\* for the same input, with equality iff no segment has a text that is
\* empty or only whitespace.
C13_OneRowPerSegment ==
    CsvReturned =>
        /\ OneRowPerSegment
        /\ Len(DataRows) = Len(SrtEntriesOfInput)
           <=> \A k \in 1..Len(CsvInput) :
                   Strip(Get(CsvInput[k], "text", <<>>)) # <<>>

\* three segments, one with an empty and one with a blank text, exported
\* behind the metadata rows: three data rows, one SRT entry
C13_Witness ==
    /\ fn = CSV /\ pc = "returned"
    /\ file_info = RowFileInfo
    /\ Len(speaker_segments) = 3
    /\ speaker_segments[1].text = <<"x">>
    /\ speaker_segments[2].text = <<" ">>
    /\ speaker_segments[3].text = <<>>
    /\ speaker_segments[3].start_time < speaker_segments[1].start_time
    /\ Len(DataRows) = 3
    /\ DataRows[1].Text = <<>> /\ DataRows[3].Segment = 3
    /\ Len(SrtEntriesOfInput) = 1

\* the number of metadata rows in front of the separator row
MetadataCount == IF fn = CSV THEN 4 ELSE 5

\* C26: when file_info is supplied (a dict that "if file_info" takes as
\* true) the tabular exporters return the metadata rows (Segment =
\* 'METADATA'), then exactly one separator row whose every column is
\* '---', then all data rows, in that order; without file_info the result
\* is the data rows only; the search variant adds a Search_Term metadata
\* row and, in data rows, Is_Match = 'YES' iff the segment is tagged
\* is_match (else 'CONTEXT') and Match_Group = context_group + 1 >= 1.
C26_MetadataThenSeparatorThenData ==
    (fn \in {CSV, SCSV} /\ pc = "returned") =>
        LET df == csv.df
            n == MetadataCount
            sorted == SortedByStartTime(CsvInput)
        IN  /\ Len(csv.csv_data) = Len(CsvInput)
            /\ IF file_info # NoFileInfo
               THEN /\ Len(df) = n + 1 + Len(csv.csv_data)
                    /\ \A k \in 1..n : df[k].Segment = "METADATA"
                    /\ \A column \in DOMAIN df[n + 1] :
                           df[n + 1][column] = "---"
                    /\ \A k \in 1..Len(csv.csv_data) :
                           df[n + 1 + k] = csv.csv_data[k]
                    /\ \A k \in 1..(n + 1) :
                           DOMAIN df[k] = DOMAIN csv.csv_data[1]
                    /\ IF fn = SCSV
                       THEN /\ df[1].Speaker = "Search_Term"
                            /\ df[1].Start_Time = search_term
                            /\ \A k \in 2..n : df[k].Speaker # "Search_Term"
                       ELSE \A k \in 1..n : df[k].Speaker # "Search_Term"
               ELSE df = csv.csv_data
            /\ fn = SCSV =>
                   \A k \in 1..Len(csv.csv_data) :
                       LET row == csv.csv_data[k]
                       IN  /\ row.Is_Match \in {"YES", "CONTEXT"}
                           /\ row.Is_Match = "YES" <=> sorted[k].is_match
                           /\ row.Match_Group = sorted[k].context_group + 1
                           /\ row.Match_Group >= 1

\* a search export behind its six header rows: a context row and a match
\* row of the group of match index 1
C26_Witness ==
    /\ fn = SCSV /\ pc = "returned"
    /\ file_info = RowFileInfo
    /\ Len(csv.df) = 8
    /\ csv.df[1].Speaker = "Search_Term"
    /\ csv.df[6].Text = "---"
    /\ csv.df[7].Is_Match = "CONTEXT" /\ csv.df[7].Match_Group = 2
    /\ csv.df[8].Is_Match = "YES" /\ csv.df[8].Match_Group = 2

----------------------------------------------------------------------------
(* find_matching_segments_with_context and display_speaker_transcript on
   the caller's own dicts *)

HeapInputs == SeqsUpTo(SearchViewPool, MaxSegs)

\* the caller's list holds the dicts json.loads built, one object each;
\* speaker_segments keeps what they hold before the call
HeapInit ==
    /\ pc = "call"
    /\ speaker_segments \in HeapInputs
    /\ objects = speaker_segments
    /\ caller_list = [k \in 1..Len(speaker_segments) |-> k]
    /\ refs = RefsInit
    /\ \/ /\ fn = FIND
          /\ search_term \in {<<>>, <<"x">>}
          /\ context_size \in 0..MaxContext
       \/ /\ fn = DST
          /\ search_term = <<>>
          /\ context_size = 0
    /\ sorted_segments = <<>>
    /\ idx = 0
    /\ grouping = GroupingInit
    /\ matching_indices = <<>>
    /\ context = ContextInit
    /\ context_segments = <<>>
    /\ include_speakers = TRUE
    /\ srt = SrtInit
    /\ CsvIdle /\ UploaderIdle /\ ViewIdle

\* find_matching_segments_with_context up to the loop over the matches
\* (lines 228-246)
Heap_FindEnter ==
    /\ fn = FIND /\ pc = "call"
    /\ IF caller_list = <<>> \/ search_term = <<>>
       THEN /\ pc' = "returned"
            /\ UNCHANGED <<refs, matching_indices>>
       ELSE LET sorted == SortedRefsByStartTime(objects, caller_list)
            IN  /\ refs' = [RefsInit EXCEPT !.sorted_segments = sorted]
                /\ matching_indices' =
                       MatchingIndices(Deref(objects, sorted), search_term)
                /\ pc' = IF matching_indices' = <<>>
                         THEN "returned" ELSE "windows"
    /\ idx' = 0
    /\ UNCHANGED <<fn, speaker_segments, search_term, context_size,
                   sorted_segments, grouping, context, context_segments,
                   include_speakers, srt, objects, caller_list,
                   csvVars, uploaderVars, viewVars>>

\* one iteration of "for match_idx in matching_indices" (lines 248-260)
Heap_FindWindow ==
    /\ fn = FIND /\ pc = "windows"
    /\ idx < Len(matching_indices)
    /\ LET h == HeapContextStep([objects |-> objects, refs |-> refs],
                                matching_indices[idx + 1], context_size)
       IN  objects' = h.objects /\ refs' = h.refs
    /\ idx' = idx + 1
    /\ UNCHANGED <<fn, pc, segmentVars, caller_list, csvVars, uploaderVars, viewVars>>

\* the sorted list returned, and the dicts the caller finds in it
\* (line 263)
Heap_FindReturn ==
    /\ fn = FIND /\ pc = "windows"
    /\ idx = Len(matching_indices)
    /\ refs' = [refs EXCEPT !.returned =
                   SortedRefsByStartTime(objects, refs.context_segments)]
    /\ context_segments' = Deref(objects, refs'.returned)
    /\ pc' = "returned"
    /\ UNCHANGED <<fn, idx, speaker_segments, search_term, context_size,
                   sorted_segments, grouping, matching_indices, context,
                   include_speakers, srt, objects, caller_list,
                   csvVars, uploaderVars, viewVars>>

\* display_speaker_transcript up to its loop (lines 396-417)
Heap_DstEnter ==
    /\ fn = DST /\ pc = "call"
    /\ IF caller_list = <<>>
       THEN pc' = "returned" /\ UNCHANGED refs
       ELSE /\ pc' = "loop"
            /\ refs' = [RefsInit EXCEPT !.sorted_segments =
                           SortedRefsByStartTime(objects, caller_list)]
    /\ grouping' = GroupingInit
    /\ idx' = 0
    /\ UNCHANGED <<fn, speaker_segments, search_term, context_size,
                   sorted_segments, matching_indices, context,
                   context_segments, include_speakers, srt, objects,
                   caller_list, csvVars, uploaderVars, viewVars>>

\* one iteration of "for segment in sorted_segments" (lines 419-442): the
\* dict is read, the dicts appended are new
Heap_DstStep ==
    /\ fn = DST /\ pc = "loop"
    /\ idx < Len(refs.sorted_segments)
    /\ grouping' =
           TranscriptStep(grouping, objects[refs.sorted_segments[idx + 1]])
    /\ idx' = idx + 1
    /\ UNCHANGED <<fn, pc, speaker_segments, search_term, context_size,
                   sorted_segments, matching_indices, context,
                   context_segments, include_speakers, srt,
                   heapVars, csvVars, uploaderVars, viewVars>>

\* the end of the loop and the last append (lines 444-451)
Heap_DstFlush ==
    /\ fn = DST /\ pc = "loop"
    /\ idx = Len(refs.sorted_segments)
    /\ grouping' = TranscriptFlush(grouping)
    /\ pc' = "returned"
    /\ UNCHANGED <<fn, idx, speaker_segments, search_term, context_size,
                   sorted_segments, matching_indices, context,
                   context_segments, include_speakers, srt,
                   heapVars, csvVars, uploaderVars, viewVars>>

HeapNext ==
    \/ Heap_FindEnter
    \/ Heap_FindWindow
    \/ Heap_FindReturn
    \/ Heap_DstEnter
    \/ Heap_DstStep
    \/ Heap_DstFlush

SpecHeap == HeapInit /\ [][HeapNext]_vars

\* C15: normalization and context extraction never mutate their input:
\* while and after display_speaker_transcript's grouping or
\* find_matching_segments_with_context runs, the caller's list holds the
\* same dicts in the same order and every source dict has the fields and
\* values it had before the call (no is_match or context_group key is
\* added); what is returned is what the functions compute from the values.
C15_InputNotMutated ==
    /\ fn \in {FIND, DST}
    /\ caller_list = [k \in 1..Len(speaker_segments) |-> k]
    /\ Deref(objects, caller_list) = speaker_segments
    /\ \A k \in 1..Len(caller_list) :
           DOMAIN objects[caller_list[k]] \cap {"is_match", "context_group"}
               = {}
    /\ (fn = FIND /\ pc = "returned") =>
           context_segments = FindMatchingSegmentsWithContext(
                                  speaker_segments, search_term, context_size)
    /\ (fn = DST /\ pc = "returned") =>
           grouping.grouped_segments = GroupedTranscript(speaker_segments)

\* an unsorted list of three dicts, searched: the first of the two dicts
\* returned is a tagged copy, and the caller's dicts are still there
C15_Witness ==
    /\ fn = FIND /\ pc = "returned"
    /\ Len(caller_list) = 3
    /\ StartKey(objects[caller_list[1]]) > StartKey(objects[caller_list[2]])
    /\ Len(refs.returned) = 2
    /\ refs.returned[1] > Len(caller_list)
    /\ objects[refs.returned[1]].is_match
    /\ objects[refs.returned[1]].context_group = 0
    /\ Len(objects) = 5

----------------------------------------------------------------------------
(* upload_av_files, step by step.  The local files stay where they are
   while the function runs: stat() (lines 238, 249) does not fail. *)

UPLOAD == "upload_av_files"

\* the dashboard does nothing while the uploader runs
SegmentsIdle ==
    /\ speaker_segments = <<>>
    /\ search_term = <<>>
    /\ context_size = 0
    /\ sorted_segments = <<>>
    /\ grouping = GroupingInit
    /\ matching_indices = <<>>
    /\ context = ContextInit
    /\ context_segments = <<>>
    /\ include_speakers = TRUE
    /\ srt = SrtInit
    /\ ViewIdle

\* objects that can be on the stage before a run, one of them in a folder
StagePool ==
    {StagePath("a.mp3"), StagePath("b.mp4"), <<"STAGE", "sub", "c.wav">>}

UploadInit ==
    /\ fn = UPLOAD
    /\ pc = "call"
    /\ idx = 0
    /\ directory \in {MissingDirectory}
           \cup {Directory(S) :
                    S \in SUBSET {NameOrder[k] : k \in 1..Len(NameOrder)}}
    /\ stage \in SUBSET StagePool
    /\ conn = "none"
    /\ executed = <<>>
    /\ local_files = <<>>
    /\ stage_files = {}
    /\ files_to_upload = <<>>
    /\ already_uploaded = <<>>
    /\ uploaded_count = 0
    /\ skipped_count = 0
    /\ failed_count = 0
    /\ written = <<>>
    /\ ProcessIdle
    /\ SegmentsIdle /\ CsvIdle /\ HeapIdle

\* conn = connect_to_snowflake(config) (line 201)
UP_Connect ==
    /\ fn = UPLOAD /\ pc = "call"
    /\ Connects(environment)
    /\ conn' = "open"
    /\ pc' = "connected"
    /\ UNCHANGED <<fn, idx, segmentVars, csvVars, heapVars, viewVars, directory, stage,
                   executed, local_files, stage_files, files_to_upload,
                   already_uploaded, uploaded_count, skipped_count,
                   failed_count, processVars, written>>

\* local_files = get_local_av_files(av_dir) and the return on an empty
\* list (lines 205-209)
UP_GetLocalFiles ==
    /\ fn = UPLOAD /\ pc = "connected"
    /\ local_files' = GetLocalAvFiles(directory)
    /\ pc' = IF local_files' = <<>> THEN "finally" ELSE "list"
    /\ UNCHANGED <<fn, idx, segmentVars, csvVars, heapVars, viewVars, directory, stage,
                   conn, executed, stage_files, files_to_upload,
                   already_uploaded, uploaded_count, skipped_count,
                   failed_count, processVars, written>>

\* stage_files = get_stage_files(conn, stage_name) (line 212)
UP_GetStageFiles ==
    /\ fn = UPLOAD /\ pc = "list"
    /\ \E response \in ListResponses(stage) :
           /\ executed' = Append(executed, Statement("LIST", "", response))
           /\ stage_files' = GetStageFiles(response)
    /\ pc' = "plan"
    /\ UNCHANGED <<fn, idx, segmentVars, csvVars, heapVars, viewVars, directory, stage,
                   conn, local_files, files_to_upload, already_uploaded,
                   uploaded_count, skipped_count, failed_count, processVars,
                   written>>

\* the two lists, the return when nothing is to upload, and the counters
\* (lines 215-246)
UP_Plan ==
    /\ fn = UPLOAD /\ pc = "plan"
    /\ files_to_upload' = FilesToUpload(local_files, stage_files)
    /\ already_uploaded' = AlreadyUploaded(local_files, stage_files)
    /\ pc' = IF files_to_upload' = <<>> THEN "finally" ELSE "upload"
    /\ idx' = 0
    /\ uploaded_count' = NoCounts.uploaded_count
    /\ skipped_count' = NoCounts.skipped_count
    /\ failed_count' = NoCounts.failed_count
    /\ UNCHANGED <<fn, segmentVars, csvVars, heapVars, viewVars, directory, stage,
                   conn, executed, local_files, stage_files, processVars,
                   written>>

\* one iteration of "for i, file_path in enumerate(files_to_upload, 1)"
\* (lines 248-262) with upload_file (lines 163-188); an exception that
\* leaves upload_file leaves the loop for the finally clause
UP_Upload ==
    /\ fn = UPLOAD /\ pc = "upload"
    /\ idx < Len(files_to_upload)
    /\ LET file_path == files_to_upload[idx + 1]
       IN  \E response \in PutResponses(file_path, stage) :
               LET result == UploadFile(response)
                   counts == Tally([uploaded_count |-> uploaded_count,
                                    skipped_count |-> skipped_count,
                                    failed_count |-> failed_count],
                                   result)
               IN  /\ executed' =
                          Append(executed,
                                 Statement("PUT", file_path, response))
                   /\ stage' = StageAfterPut(file_path, stage, response)
                   /\ written' = WrittenAfterPut(file_path, written,
                                                 response, "this run")
                   /\ IF result = "raised"
                      THEN /\ pc' = "finally raised"
                           /\ UNCHANGED <<idx, uploaded_count, skipped_count,
                                          failed_count>>
                      ELSE /\ pc' = pc
                           /\ idx' = idx + 1
                           /\ uploaded_count' = counts.uploaded_count
                           /\ skipped_count' = counts.skipped_count
                           /\ failed_count' = counts.failed_count
    /\ UNCHANGED <<fn, segmentVars, csvVars, heapVars, viewVars, directory, conn,
                   local_files, stage_files, files_to_upload,
                   already_uploaded, processVars>>

\* the summary and "Verify upload" (lines 264-281): the stage is listed
\* when uploaded_count > 0, and an exception of that listing is not caught
UP_Verify ==
    /\ fn = UPLOAD /\ pc = "upload"
    /\ idx = Len(files_to_upload)
    /\ IF uploaded_count > 0
       THEN \E response \in ListResponses(stage) :
                /\ executed' =
                       Append(executed, Statement("LIST", "", response))
                /\ pc' = IF response.raised
                         THEN "finally raised" ELSE "finally"
       ELSE pc' = "finally" /\ UNCHANGED executed
    /\ UNCHANGED <<fn, idx, segmentVars, csvVars, heapVars, viewVars, directory, stage,
                   conn, local_files, stage_files, files_to_upload,
                   already_uploaded, uploaded_count, skipped_count,
                   failed_count, processVars, written>>

\* a close that is skipped when an exception is on its way out, as
\* conn.close() after the try block instead of in a finally clause would be
UP_CloseAfterTry ==
    /\ fn = UPLOAD /\ pc \in {"finally", "finally raised"}
    /\ conn' = IF pc = "finally" THEN "closed" ELSE conn
    /\ pc' = IF pc = "finally" THEN "returned" ELSE "raised"
    /\ UNCHANGED <<fn, idx, segmentVars, csvVars, heapVars, viewVars,
                   directory, stage, executed, local_files, stage_files,
                   files_to_upload, already_uploaded, uploaded_count,
                   skipped_count, failed_count, written, processVars>>

\* finally: conn.close() (lines 283-285), then the return or the exception
UP_Close ==
    /\ fn = UPLOAD /\ pc \in {"finally", "finally raised"}
    /\ conn' = "closed"
    /\ pc' = IF pc = "finally" THEN "returned" ELSE "raised"
    /\ UNCHANGED <<fn, idx, segmentVars, csvVars, heapVars, viewVars, directory, stage,
                   executed, local_files, stage_files, files_to_upload,
                   already_uploaded, uploaded_count, skipped_count,
                   failed_count, processVars, written>>

UploadNext ==
    \/ UP_Connect
    \/ UP_GetLocalFiles
    \/ UP_GetStageFiles
    \/ UP_Plan
    \/ UP_Upload
    \/ UP_Verify
    \/ UP_Close

SpecUpload == UploadInit /\ [][UploadNext]_vars

----------------------------------------------------------------------------
(* Claims about the uploader *)

\* the PUT statements run so far and the files they name, in order
PutStatements == SelectSeq(executed, LAMBDA st : st.sql = "PUT")
PutFiles == [k \in 1..Len(PutStatements) |-> PutStatements[k].file]

\* the two lists have been computed from a listing
Planned ==
    /\ fn = UPLOAD
    /\ executed # <<>>
    /\ pc \in {"upload", "finally", "finally raised", "returned", "raised"}

\* the transfer loop has been reached, and it has been left
LoopReached == Planned /\ files_to_upload # <<>>
LoopLeft == LoopReached /\ pc # "upload"

\* the elements of a list
Elements(list) == {list[k] : k \in 1..Len(list)}

\* a list holds, in their order, the elements of another that are in S
IsSelection(list, from, S) ==
    list = SelectSeq(from, LAMBDA x : x \in S)

\* C16: files_to_upload and already_uploaded partition the local file
\* list: a local file is in files_to_upload iff its base filename is not
\* among the base filenames of the remote listing (directory prefixes
\* ignored), in already_uploaded otherwise; local {a.mp3, b.mp4, c.wav}
\* and remote {b.mp4} give {a.mp3, c.wav} and {b.mp4}.
C16_PlanPartitionsLocalFiles ==
    (Planned /\ ~executed[1].response.raised) =>
        LET rows == executed[1].response.rows
            listed == {file_path[Len(file_path)] : file_path \in rows}
        IN  /\ \A name \in Elements(local_files) :
                   /\ name \in Elements(files_to_upload) <=> name \notin listed
                   /\ name \in Elements(already_uploaded) <=> name \in listed
            /\ IsSelection(files_to_upload, local_files,
                           Elements(files_to_upload))
            /\ IsSelection(already_uploaded, local_files,
                           Elements(already_uploaded))
            /\ Len(files_to_upload) + Len(already_uploaded)
                   = Len(local_files)
            /\ (local_files = <<"a.mp3", "b.mp4", "c.wav">>
                /\ listed = {"b.mp4"}) =>
                   /\ files_to_upload = <<"a.mp3", "c.wav">>
                   /\ already_uploaded = <<"b.mp4">>

\* three local files, c.wav listed in a folder of the stage: it is not
\* uploaded again
C16_Witness ==
    /\ Planned /\ pc = "upload"
    /\ local_files = <<"a.mp3", "b.mp4", "c.wav">>
    /\ executed[1].response.rows = {<<"STAGE", "sub", "c.wav">>}
    /\ files_to_upload = <<"a.mp3", "b.mp4">>
    /\ already_uploaded = <<"c.wav">>

\* the place of a name in the order of names
NamePosition(name) == CHOOSE k \in 1..Len(NameOrder) : NameOrder[k] = name

TransferFailed(response) ==
    \/ response.raised
    \/ ~response.row
    \/ response.status = <<"E", "R", "R", "O", "R">>

ListingsAfterLastPut ==
    LET last == CHOOSE k \in 0..Len(executed) :
                    /\ k = 0 \/ executed[k].sql = "PUT"
                    /\ \A j \in (k + 1)..Len(executed) :
                           executed[j].sql # "PUT"
    IN  Len(executed) - last

\* C19: in every run that reaches the transfer loop the stage is listed
\* exactly once more after the last transfer has completed, whatever the
\* outcomes of the transfers (all SKIPPED or FAILED included).
C19_ListedOnceAfterTransfers ==
    (LoopReached /\ pc \in {"returned", "raised"}) =>
        ListingsAfterLastPut = 1

ListingRaised ==
    \E k \in 1..Len(executed) :
        executed[k].sql = "LIST" /\ executed[k].response.raised

\* C21: a failure of any listing request of a run (the listing before the
\* diff, the verification listing after the transfers) is never propagated
\* as an error that ends upload_av_files abnormally: the run reaches its
\* normal end.
C21_ListingFailureNeverPropagates ==
    (fn = UPLOAD /\ ListingRaised) => pc \notin {"finally raised", "raised"}

----------------------------------------------------------------------------
(* upload_av_files in an environment that moves: another run of the
   uploader sends its PUT statements to the same stage, and a local file
   can be gone when its size is asked. *)

\* the media files of the model
MediaNames ==
    {NameOrder[k] : k \in 1..Len(NameOrder)} \ {"notes.txt"}

\* the PUT statement of upload_file (lines 172-175) sent by another run of
\* the uploader while this run holds its connection
OTHER_Put ==
    /\ fn = UPLOAD /\ conn = "open"
    /\ \E name \in MediaNames :
           \E response \in PutResponses(name, stage) :
               /\ stage' = StageAfterPut(name, stage, response)
               /\ written' = WrittenAfterPut(name, written, response,
                                             "other run")
    /\ UNCHANGED <<fn, pc, idx, segmentVars, csvVars, heapVars, viewVars, directory,
                   conn, executed, local_files, stage_files,
                   files_to_upload, already_uploaded, uploaded_count,
                   skipped_count, failed_count, processVars>>

\* file_path.stat() (lines 238, 249) on a file that is gone: the exception
\* leaves the try block
UP_StatRaises ==
    /\ fn = UPLOAD /\ pc = "upload"
    /\ idx < Len(files_to_upload)
    /\ directory' =
           Directory(directory.names \ {files_to_upload[idx + 1]})
    /\ pc' = "finally raised"
    /\ UNCHANGED <<fn, idx, segmentVars, csvVars, heapVars, viewVars, stage, conn,
                   executed, local_files, stage_files, files_to_upload,
                   already_uploaded, uploaded_count, skipped_count,
                   failed_count, written, processVars>>

ConcurrentNext ==
    \/ UploadNext
    \/ OTHER_Put
    \/ UP_StatRaises

SpecConcurrent == UploadInit /\ [][ConcurrentNext]_vars

\* no path is in the record of stored objects twice
NoPathWrittenTwice ==
    \A i, j \in 1..Len(written) :
        i # j => written[i].path # written[j].path

\* this run is about to send the PUT of a file that was not in its listing
\* and is on the stage now
RacedFile ==
    /\ fn = UPLOAD /\ pc = "upload"
    /\ idx < Len(files_to_upload)
    /\ ~executed[1].response.raised
    /\ StagePath(files_to_upload[idx + 1]) \in stage

----------------------------------------------------------------------------
(* The process: main (lines 288-326) around upload_av_files *)

MAIN == "main"

\* a check of the account that lets the template pass
AccountConfiguredAlways(env) == TRUE

\* the account of config.template.json was replaced (line 318)
AccountConfigured(env) == env.config # "placeholder"

\* json.load gave a config (lines 32-34)
ConfigLoaded(env) == env.config \in {"loaded", "placeholder"}

MainInit ==
    /\ fn = MAIN
    /\ pc = "main"
    /\ idx = 0
    /\ environment \in
           {Environment(key_file, config, connection) :
               key_file \in {"present", "missing", "not a key"},
               config \in {"loaded", "missing", "unparseable", "placeholder"},
               connection \in {"accepted", "refused"}}
    /\ exit_code = NoneNum
    /\ previous_runs = <<>>
    /\ directory \in {MissingDirectory}
           \cup {Directory(S) :
                    S \in SUBSET {NameOrder[k] : k \in 1..Len(NameOrder)}}
    /\ stage \in SUBSET StagePool
    /\ conn = "none"
    /\ executed = <<>>
    /\ local_files = <<>>
    /\ stage_files = {}
    /\ files_to_upload = <<>>
    /\ already_uploaded = <<>>
    /\ uploaded_count = 0
    /\ skipped_count = 0
    /\ failed_count = 0
    /\ written = <<>>
    /\ SegmentsIdle /\ CsvIdle /\ HeapIdle

\* sys.exit(code), or the end of the process
Exit(code) ==
    /\ exit_code' = code
    /\ fn' = MAIN
    /\ pc' = "exited"

\* "if not PRIVATE_KEY_PATH.exists()" (lines 305-311)
MAIN_CheckKey ==
    /\ fn = MAIN /\ pc = "main"
    /\ IF environment.key_file = "missing"
       THEN Exit(1)
       ELSE pc' = "load config" /\ UNCHANGED <<fn, exit_code>>
    /\ UNCHANGED <<idx, segmentVars, csvVars, heapVars, viewVars, directory, stage,
                   conn, executed, local_files, stage_files,
                   files_to_upload, already_uploaded, uploaded_count,
                   skipped_count, failed_count, written, environment,
                   previous_runs>>

\* config = load_config(CONFIG_PATH) (line 315, lines 30-41)
MAIN_LoadConfig ==
    /\ fn = MAIN /\ pc = "load config"
    /\ IF ~ConfigLoaded(environment)
       THEN Exit(1)
       ELSE pc' = "check account" /\ UNCHANGED <<fn, exit_code>>
    /\ UNCHANGED <<idx, segmentVars, csvVars, heapVars, viewVars, directory, stage,
                   conn, executed, local_files, stage_files,
                   files_to_upload, already_uploaded, uploaded_count,
                   skipped_count, failed_count, written, environment,
                   previous_runs>>

\* the check of the account and the call of upload_av_files
\* (lines 318-326)
MAIN_CheckAccount ==
    /\ fn = MAIN /\ pc = "check account"
    /\ IF ~AccountConfigured(environment)
       THEN Exit(1)
       ELSE fn' = UPLOAD /\ pc' = "call" /\ UNCHANGED exit_code
    /\ UNCHANGED <<idx, segmentVars, csvVars, heapVars, viewVars, directory, stage,
                   conn, executed, local_files, stage_files,
                   files_to_upload, already_uploaded, uploaded_count,
                   skipped_count, failed_count, written, environment,
                   previous_runs>>

\* connect_to_snowflake leaves by sys.exit(1): the key could not be
\* loaded (lines 67-69) or connect raised (lines 91-93); line 201 is
\* outside the try block of upload_av_files
UP_ConnectExits ==
    /\ fn = UPLOAD /\ pc = "call"
    /\ ~Connects(environment)
    /\ Exit(1)
    /\ UNCHANGED <<idx, segmentVars, csvVars, heapVars, viewVars, directory, stage,
                   conn, executed, local_files, stage_files,
                   files_to_upload, already_uploaded, uploaded_count,
                   skipped_count, failed_count, written, environment,
                   previous_runs>>

\* the end of the process after upload_av_files: status 0 when it returned,
\* status 1 (and a traceback) when an exception left it
MAIN_End ==
    /\ fn = UPLOAD /\ pc \in {"returned", "raised"}
    /\ environment.process
    /\ Exit(IF pc = "returned" THEN 0 ELSE 1)
    /\ UNCHANGED <<idx, segmentVars, csvVars, heapVars, viewVars, directory, stage,
                   conn, executed, local_files, stage_files,
                   files_to_upload, already_uploaded, uploaded_count,
                   skipped_count, failed_count, written, environment,
                   previous_runs>>

MainNext ==
    \/ MAIN_CheckKey
    \/ MAIN_LoadConfig
    \/ MAIN_CheckAccount
    \/ UP_ConnectExits
    \/ UploadNext
    \/ MAIN_End

SpecMain == MainInit /\ [][MainNext]_vars

\* the key file is missing, config.json is missing or unparseable, or the
\* credentials or the account are not configured
NotConfigured ==
    \/ environment.key_file # "present"
    \/ environment.config # "loaded"
    \/ environment.connection # "accepted"

\* C23: the process exits with code 1 when the key file is missing, the
\* config file is missing or unparseable, or the credentials/account are
\* not configured, and with code 0 in every other run, runs with FAILED
\* transfers and runs with no local files included.
C23_ExitCode ==
    (fn = MAIN /\ pc = "exited") =>
        /\ exit_code \in {0, 1}
        /\ exit_code = 1 <=> NotConfigured


\* the key file is missing, the config cannot be loaded or the account of
\* the template is unfilled
BadConfiguration ==
    \/ environment.key_file = "missing"
    \/ environment.config \in {"missing", "unparseable", "placeholder"}

\* the local directory is missing or holds no recognised media file
NoMediaFiles ==
    \/ ~directory.exists
    \/ \A name \in directory.names : Suffix(name) \notin AV_EXTENSIONS

\* the stage was listed, and every local file is in the listing
AllFilesListed ==
    /\ executed # <<>>
    /\ ~executed[1].response.raised
    /\ \A k \in 1..Len(local_files) :
           \E file_path \in executed[1].response.rows :
               file_path[Len(file_path)] = local_files[k]

\* C30: no remote write happens without work to do or with a bad
\* configuration: when the key file is missing, the config cannot be
\* loaded or the account placeholder is unfilled, the process exits before
\* any connection, listing or PUT; when the local directory is missing or
\* holds no recognised media file, no listing and no PUT is issued; when
\* every local file is already in the remote listing, no PUT and no
\* verification listing is issued.
C30_NoWriteWithoutWork ==
    environment.process =>
        /\ BadConfiguration =>
               /\ fn = MAIN
               /\ conn = "none" /\ executed = <<>> /\ written = <<>>
               /\ pc = "exited" => exit_code = 1
        /\ NoMediaFiles => (executed = <<>> /\ written = <<>>)
        /\ AllFilesListed =>
               /\ Len(executed) = 1
               /\ written = <<>>
               /\ pc \in {"plan", "finally", "returned", "exited"}

\* both local files are in the listing, one of them in a folder of the
\* stage: the process has listed the stage once and has exited with 0
C30_Witness ==
    /\ environment.process
    /\ fn = MAIN /\ pc = "exited" /\ exit_code = 0
    /\ local_files = <<"a.mp3", "c.wav">>
    /\ AllFilesListed
    /\ StagePath("c.wav") \notin stage
    /\ conn = "closed"
    /\ Len(executed) = 1
----------------------------------------------------------------------------
(* The search view of main (lines 943-1070): one result row after another *)

VIEW == "main: search view"

\* the column TRANSCRIPT_WITH_SPEAKERS of a row: NULL, a string that is not
\* JSON, the JSON of an array, or the JSON of an object
JsonNull == [kind |-> "null"]
JsonMalformed == [kind |-> "malformed"]
JsonArray == [kind |-> "array"]
JsonObject(doc) == [kind |-> "object", doc |-> doc]

\* json.loads and .get('speakers', []) (lines 972-977) raise
ParseRaises(column) == column.kind \in {"malformed", "array"}

\* the characters after a backslash that re rejects in a replacement
\* template: the letters (upper case after search_term.upper()) and the
\* digits of a group reference
RejectedEscapes ==
    {"A", "B", "C", "D", "E", "H", "I", "L", "N", "O", "P", "T", "U", "X",
     "a", "b", "c", "d", "e", "h", "i", "l", "n", "o", "p", "t", "u", "x",
     "1", "2", "3", "4", "5", "6", "7", "8", "9"}

\* the parse of the replacement template raises re.error
RECURSIVE BadTemplate(_)
BadTemplate(template) ==
    IF Len(template) < 2 THEN FALSE
    ELSE IF Head(template) = "\\"
    THEN \/ template[2] \in RejectedEscapes
         \/ BadTemplate(SubSeq(template, 3, Len(template)))
    ELSE BadTemplate(Tail(template))

\* highlight_text (lines 385-392) raises: pattern.sub reads
\* f"**{search_term.upper()}**" as a template
HighlightRaises(text, term) ==
    /\ term # <<>> /\ text # <<>>
    /\ BadTemplate(<<"*", "*">> \o term \o <<"*", "*">>)

\* grouped_segments of display_search_result_with_speakers (lines 281-333)
RECURSIVE SearchLoop(_, _)
SearchLoop(g, segments) ==
    IF segments = <<>> THEN SearchFlush(g)
    ELSE SearchLoop(SearchStep(g, Head(segments)), Tail(segments))

\* display_search_result_with_speakers raises: highlight_text is called on
\* the text of each group that is a match (lines 363-365)
DisplayRaises(segments, term) ==
    LET grouped == SearchLoop(GroupingInit, segments).grouped_segments
    IN  \E k \in 1..Len(grouped) :
            /\ grouped[k].is_match
            /\ HighlightRaises(grouped[k].text, term)

\* what one row puts on the page: the view of the transcript ("structured",
\* "plain" or none), whether st.error was called, and whether an exception
\* left the loop body
Rendering(view, error, raised) ==
    [view |-> view, error |-> error, raised |-> raised]

\* the plain transcript: highlight_text on row['TRANSCRIPT'] and an
\* expander (lines 1037-1042, 1048-1052, 1055-1059)
PlainTranscript(row, term, error) ==
    IF HighlightRaises(row.TRANSCRIPT, term)
    THEN Rendering("none", error, TRUE)
    ELSE Rendering("plain", error, FALSE)

\* the body of "for idx, row in search_results.iterrows()" (lines 956-1061)
RenderRow(row, term, size, show) ==
    LET column == row.TRANSCRIPT_WITH_SPEAKERS
    IN  IF ~(show /\ column.kind # "null")
        THEN PlainTranscript(row, term, FALSE)
        ELSE IF ParseRaises(column)
        THEN PlainTranscript(row, term, TRUE)
        ELSE LET segments == Get(column.doc, "speakers", <<>>)
                 found == FindMatchingSegmentsWithContext(segments, term,
                                                          size)
             IN  IF segments = <<>> \/ found = <<>>
                 THEN PlainTranscript(row, term, FALSE)
                 ELSE IF DisplayRaises(found, term)
                 THEN PlainTranscript(row, term, TRUE)
                 ELSE Rendering("structured", FALSE, FALSE)

\* a row of the result: the transcript and the structured column
Row(transcript, column) ==
    [TRANSCRIPT |-> transcript, TRANSCRIPT_WITH_SPEAKERS |-> column]

\* the transcript of the rows of the model
RowText == <<"h", "i", " ", "c", "\\", "t">>

\* the columns of the rows of the model
ColumnPool ==
    {JsonNull, JsonMalformed, JsonArray,
     JsonObject([language |-> "en"]),
     JsonObject([speakers |-> <<>>]),
     JsonObject([speakers |-> <<Seg("A", RowText, 0, 1000)>>]),
     JsonObject([speakers |-> <<Seg("A", <<"n", "o">>, 0, 1000)>>])}

\* the terms typed into the search box
ViewTerms == {<<"h", "i">>, <<"c", "\\", "t">>, <<"\\">>}

\* most rows of a result
MaxRows == 3

ViewInit ==
    /\ fn = VIEW
    /\ pc = "search"
    /\ idx = 0
    /\ search_term \in ViewTerms
    /\ context_size \in {0, MaxContext}
    /\ show_speaker_view \in BOOLEAN
    /\ search_results \in SeqsUpTo({Row(RowText, column) :
                                       column \in ColumnPool}, MaxRows)
    /\ rendered = <<>>
    /\ speaker_segments = <<>>
    /\ sorted_segments = <<>>
    /\ grouping = GroupingInit
    /\ matching_indices = <<>>
    /\ context = ContextInit
    /\ context_segments = <<>>
    /\ include_speakers = TRUE
    /\ srt = SrtInit
    /\ CsvIdle /\ HeapIdle /\ UploaderIdle

\* "if not search_results.empty" (lines 955, 1062-1063)
VIEW_Search ==
    /\ fn = VIEW /\ pc = "search"
    /\ pc' = IF search_results = <<>> THEN "no results" ELSE "rows"
    /\ UNCHANGED <<fn, idx, segmentVars, csvVars, heapVars, uploaderVars,
                   viewVars>>

\* one row of the loop (lines 956-1061); an exception that leaves the body
\* ends the script run
VIEW_Row ==
    /\ fn = VIEW /\ pc = "rows"
    /\ idx < Len(search_results)
    /\ LET row == search_results[idx + 1]
           out == RenderRow(row, search_term, context_size,
                            show_speaker_view)
       IN  /\ rendered' = Append(rendered, out)
           /\ idx' = idx + 1
           /\ pc' = IF out.raised THEN "raised" ELSE pc
    /\ UNCHANGED <<fn, segmentVars, csvVars, heapVars, uploaderVars,
                   show_speaker_view, search_results>>

\* the end of the loop
VIEW_Done ==
    /\ fn = VIEW /\ pc = "rows"
    /\ idx = Len(search_results)
    /\ pc' = "rendered"
    /\ UNCHANGED <<fn, idx, segmentVars, csvVars, heapVars, uploaderVars,
                   viewVars>>

ViewNext ==
    \/ VIEW_Search
    \/ VIEW_Row
    \/ VIEW_Done

SpecView == ViewInit /\ [][ViewNext]_vars

\* C24: in the search view, malformed structured-segment JSON in one row
\* is caught for that row only: the row falls back to the plain
\* (highlighted) transcript, and every later row of the result is still
\* processed and rendered.
C24_MalformedRowFallsBack ==
    (fn = VIEW /\ show_speaker_view) =>
        \A k \in 1..Len(search_results) :
            search_results[k].TRANSCRIPT_WITH_SPEAKERS = JsonMalformed =>
                /\ k <= Len(rendered) =>
                       /\ rendered[k].view = "plain"
                       /\ ~rendered[k].raised
                /\ (k <= Len(rendered) /\ pc # "rows") =>
                       /\ pc = "rendered"
                       /\ Len(rendered) = Len(search_results)

\* upload_av_files has been left, by return or by an exception
UploadLeft == fn = UPLOAD /\ pc \in {"returned", "raised"}

\* C27: once upload_av_files has opened the connection, the connection is
\* closed exactly once on every way out of the function (no local files,
\* nothing to upload, normal completion, an exception raised during
\* listing, stat or transfer), and no listing or PUT is issued after the
\* close.
C27_ClosedOnceOnEveryWayOut ==
    /\ [](UploadLeft => conn = "closed")
    /\ [](conn = "closed" => UploadLeft)
    /\ [][/\ (conn' = "closed" /\ conn # "closed") =>
                 (conn = "open" /\ pc \in {"finally", "finally raised"})
          /\ conn = "closed" =>
                 (conn' = "closed" /\ executed' = executed)]_vars

\* a.mp3 was stored, then b.mp4 was gone when its size was asked: the
\* exception left the function with the connection closed
C27_Witness ==
    /\ fn = UPLOAD /\ pc = "raised"
    /\ conn = "closed"
    /\ files_to_upload = <<"a.mp3", "b.mp4">>
    /\ PutFiles = <<"a.mp3">>
    /\ ~ListingRaised
    /\ "b.mp4" \notin directory.names

----------------------------------------------------------------------------
(* The uploader run twice on an unchanged local directory *)

\* what is kept of a run that is over: its statements and the stage it left
RunRecord(statements, staged) == [executed |-> statements, stage |-> staged]

\* upload_av_files is called again (lines 191-201) after a first run is
\* over; the local directory and the stage are as that run left them
UP_RunAgain ==
    /\ fn = UPLOAD /\ pc \in {"returned", "raised"}
    /\ previous_runs = <<>>
    /\ previous_runs' = Append(previous_runs, RunRecord(executed, stage))
    /\ pc' = "call"
    /\ idx' = 0
    /\ conn' = "none"
    /\ executed' = <<>>
    /\ local_files' = <<>>
    /\ stage_files' = {}
    /\ files_to_upload' = <<>>
    /\ already_uploaded' = <<>>
    /\ uploaded_count' = 0
    /\ skipped_count' = 0
    /\ failed_count' = 0
    /\ UNCHANGED <<fn, segmentVars, csvVars, heapVars, viewVars, directory,
                   stage, written, environment, exit_code>>

TwiceNext ==
    \/ UploadNext
    \/ UP_RunAgain

SpecTwice == UploadInit /\ [][TwiceNext]_vars

\* in the first run the initial listing succeeded and every transfer ended
\* UPLOADED or SKIPPED
FirstRunClean ==
    /\ previous_runs # <<>>
    /\ LET first == previous_runs[1].executed
           puts == SelectSeq(first, LAMBDA st : st.sql = "PUT")
       IN  /\ first # <<>>
           /\ ~first[1].response.raised
           /\ \A k \in 1..Len(puts) :
                  UploadFile(puts[k].response) \in {"True", "SKIPPED"}

\* the second run does nothing to the stage
SecondRunIsIdle ==
    /\ files_to_upload = <<>>
    /\ PutStatements = <<>>
    /\ StageFiles(stage) = StageFiles(previous_runs[1].stage)

\* C28 as stated: running the uploader twice with an unchanged local
\* directory is idempotent on the stage: if in the first run the initial
\* listing succeeded and every transfer ended UPLOADED or SKIPPED, the
\* second run finds to_upload empty, issues no PUT and leaves the set of
\* staged filenames unchanged.
C28_SecondRunIssuesNoPut ==
    (FirstRunClean /\ Planned) => SecondRunIsIdle

\* C28: if in the first run the initial listing succeeded and every
\* transfer ended UPLOADED or SKIPPED, and the listing of the second run
\* succeeds too, the second run finds to_upload empty, issues no PUT and
\* leaves the set of staged filenames unchanged; when the listing of the
\* second run fails a PUT is sent for every local file, and the set of
\* staged filenames is unchanged all the same.
C28_SecondRunIdleAfterListing ==
    (FirstRunClean /\ Planned) =>
        /\ StageFiles(stage) = StageFiles(previous_runs[1].stage)
        /\ ~executed[1].response.raised => SecondRunIsIdle
        /\ executed[1].response.raised => files_to_upload = local_files

\* a first run stored a.mp3 and b.mp4; the second run lists the stage and
\* returns
C28_Witness ==
    /\ FirstRunClean /\ Planned /\ pc = "returned"
    /\ Len(previous_runs[1].executed) = 4
    /\ local_files = <<"a.mp3", "b.mp4">>
    /\ already_uploaded = <<"a.mp3", "b.mp4">>
    /\ Len(executed) = 1
    /\ ~executed[1].response.raised
    /\ SecondRunIsIdle

----------------------------------------------------------------------------
(* Claims about the counters of a run *)

\* the PUT statements of the run whose answer satisfies a condition
PutsWhere(Test(_)) ==
    {k \in 1..Len(PutStatements) : Test(PutStatements[k].response)}

\* the answer is a row whose status, in upper case, contains the word
StatusContains(response, word) ==
    /\ ~response.raised
    /\ response.row
    /\ \E off \in 0..(Len(response.status) - Len(word)) :
           \A j \in 1..Len(word) :
               UpperChar(response.status[off + j]) = word[j]

\* the objects this run has added to the stage
AddedByThisRun == {k \in 1..Len(written) : written[k].by = "this run"}

\* C29: a file is counted in uploaded_count only if the PUT returned a row
\* whose status contains UPLOADED (in any case of letters); a PUT that
\* raises, returns no row, or returns any status other than
\* UPLOADED/SKIPPED is counted FAILED, so uploaded_count never exceeds the
\* number of objects this run actually added to the stage.
C29_UploadedOnlyWhenStored ==
    fn = UPLOAD =>
        /\ uploaded_count =
               Cardinality(PutsWhere(LAMBDA r : StatusContains(r, UPLOADED)))
        /\ failed_count =
               Cardinality(PutsWhere(LAMBDA r :
                               /\ ~StatusContains(r, UPLOADED)
                               /\ ~StatusContains(r, SKIPPED)))
        /\ uploaded_count <= Cardinality(AddedByThisRun)
        /\ \A k \in AddedByThisRun : written[k].path \in stage

\* three transfers: no row, a row with the status of an error, a row with
\* UPLOADED; one object was added and one file is counted as uploaded
C29_Witness ==
    /\ fn = UPLOAD /\ pc = "returned"
    /\ Len(PutStatements) = 3
    /\ PutStatements[1].response = PutNoRow
    /\ PutStatements[2].response = PutRow(<<"E", "R", "R", "O", "R">>)
    /\ PutStatements[3].response = PutRow(UPLOADED)
    /\ uploaded_count = 1 /\ failed_count = 2
    /\ Cardinality(AddedByThisRun) = 1

====
